---- MODULE Spec2Model ----
(***************************************************************************)
(* A model of libbdgt: the encrypted record store (storage/db_storage.rs), *)
(* the Budget facade (core/budget.rs) and the git based synchronization    *)
(* (sync/git_engine.rs).                                                   *)
(*                                                                         *)
(* Timestamps are integers counted in clock ticks; TicksPerSecond ticks    *)
(* make one second.  Clock::now() has sub-second resolution, while the     *)
(* last-sync file and the artifact `timestamp` file keep whole seconds.    *)
(***************************************************************************)
EXTENDS Integers, Sequences, FiniteSets, TLC

(***************************************************************************)
(* Bounds of the model.                                                    *)
(***************************************************************************)
MaxAccounts == 2
MaxCategories == 1
MaxPlans == 1
MaxTransactions == 2
MaxTime == 1
MaxCalls == 5
MaxAmount == 1
TicksPerSecond == 2

Instances == {"i1", "i2"}

\* SQL NULL / Option::None for a timestamp, and None for a PrimaryId.
Null == 0 - 1
NoId == 0 - 2

(***************************************************************************)
(* Program constants.                                                      *)
(***************************************************************************)
TRANSFER_INCOME_ID == 0
TRANSFER_OUTCOME_ID == 255
JANUARY_1970 == 0
FIRST_AFTER_JANUARY_1970 == 1 * TicksPerSecond

\* The wall clock when the model starts: some moment after the epoch.
StartTime == 2 * TicksPerSecond + 1

AccountIds == 1..MaxAccounts
UserCategoryIds == 1..MaxCategories
CategoryIds == UserCategoryIds \cup {TRANSFER_INCOME_ID, TRANSFER_OUTCOME_ID}
PlanIds == 1..MaxPlans
TransactionIds == 1..MaxTransactions
Amounts == (0 - MaxAmount .. MaxAmount) \ {0}
InitialBalances == {MaxAmount}
Times == JANUARY_1970 .. StartTime + MaxTime + 1
CategoryTypes == {"Income", "Outcome"}

VARIABLES
    storage,        \* storage[i]: the four tables of instance i's database
    next_id,        \* identifiers handed out so far by randomblob(16), per table
    now,            \* the wall clock, in ticks
    foreign_keys,   \* whether the SQLite build enforces REFERENCES clauses
    backend,        \* the DataStorage behind Budget: "DbStorage" or "DataStorage"
    repo,           \* repo[i]: instance i's clone, its sync files and last-sync file
    remote,         \* the remote repository: its branch and the files at its head
    progress,       \* history: what each instance has changed and synchronized
    calls,          \* how many calls and clock ticks have happened
    crypto          \* the GpgCryptoEngine of the process, and what its last call did

vars ==
    <<storage, next_id, now, foreign_keys, backend, repo, remote, progress, calls, crypto>>

\* No engine has been made yet.
NoCrypto ==
    [symm |-> <<>>,
     memory |-> [buffer |-> <<>>, string |-> <<>>, returned |-> <<>>,
                 call |-> "none", before |-> <<>>],
     engine |-> [made |-> FALSE, symmetric_key |-> <<>>],
     unwrapped |-> 0,
     last |-> [call |-> "none", status |-> "Ok", asymmetric |-> 0, unwrapped |-> 0,
               output |-> <<>>]]

(***************************************************************************)
(* storage/data.rs                                                         *)
(***************************************************************************)
MetaInfo_new(origin, added_timestamp, changed_timestamp, removed_timestamp) ==
    [origin |-> origin, added_timestamp |-> added_timestamp,
     changed_timestamp |-> changed_timestamp, removed_timestamp |-> removed_timestamp]

\* What an INSERT keeps of the meta information: _origin and
\* _creation_timestamp; the other two columns are left NULL.
InsertedMeta(m) == MetaInfo_new(m.origin, m.added_timestamp, Null, Null)

Ids(table) == {r.id : r \in table}

(***************************************************************************)
(* Field encryption (core/budget.rs, the encrypt and decrypt helpers).  A   *)
(* ciphertext remembers the data key it was made with.                     *)
(***************************************************************************)
encrypt(key, plaintext) == [key |-> key, pt |-> plaintext]
decrypt(key, ciphertext) == ciphertext.pt

encrypt_transaction(i, t) ==
    [t EXCEPT !.description = encrypt(i, @), !.amount = encrypt(i, @)]
decrypt_transaction(i, t) ==
    [t EXCEPT !.description = decrypt(i, @), !.amount = decrypt(i, @)]
encrypt_account(i, a) ==
    [a EXCEPT !.name = encrypt(i, @), !.balance = encrypt(i, @),
              !.initial_balance = encrypt(i, @)]
decrypt_account(i, a) ==
    [a EXCEPT !.name = decrypt(i, @), !.balance = decrypt(i, @),
              !.initial_balance = decrypt(i, @)]
encrypt_category(i, c) == [c EXCEPT !.name = encrypt(i, @)]
decrypt_category(i, c) == [c EXCEPT !.name = decrypt(i, @)]
encrypt_plan(i, p) == [p EXCEPT !.name = encrypt(i, @), !.amount_limit = encrypt(i, @)]
decrypt_plan(i, p) == [p EXCEPT !.name = decrypt(i, @), !.amount_limit = decrypt(i, @)]

(***************************************************************************)
(* DbStorage: queries.  Each is the WHERE clause of its statement.         *)
(***************************************************************************)
IsLive(r) == r.meta_info.removed_timestamp = Null

\* transaction without the filter on the removal timestamp.
St_transaction_unfiltered(s, id) == {r \in s.transactions : r.id = id}

St_transaction(s, id) == {r \in s.transactions : r.id = id /\ IsLive(r)}
St_transactions(s) == {r \in s.transactions : IsLive(r)}
St_transactions_after(s, start) ==
    {r \in s.transactions : r.timestamp >= start /\ IsLive(r)}
St_transactions_between(s, start, end) ==
    {r \in s.transactions : r.timestamp >= start /\ r.timestamp < end /\ IsLive(r)}
\* transactions_of without the filter on the removal timestamp.
St_transactions_of_unfiltered(s, acc) == {r \in s.transactions : r.account_id = acc}

St_transactions_of(s, acc) ==
    {r \in s.transactions : r.account_id = acc /\ IsLive(r)}
St_transactions_of_after(s, acc, start) ==
    {r \in s.transactions : r.account_id = acc /\ r.timestamp >= start /\ IsLive(r)}
St_transactions_of_between(s, acc, start, end) ==
    {r \in s.transactions : r.account_id = acc /\ r.timestamp >= start
                            /\ r.timestamp < end /\ IsLive(r)}
St_transactions_with(s, cat) ==
    {r \in s.transactions : r.category_id = cat /\ IsLive(r)}
St_transactions_with_after(s, cat, start) ==
    {r \in s.transactions : r.category_id = cat /\ r.timestamp >= start /\ IsLive(r)}
St_transactions_with_between(s, cat, start, end) ==
    {r \in s.transactions : r.category_id = cat /\ r.timestamp >= start
                            /\ r.timestamp < end /\ IsLive(r)}

St_account(s, id) == {r \in s.accounts : r.id = id /\ IsLive(r)}
St_accounts(s) == {r \in s.accounts : IsLive(r)}

St_category(s, id) == {r \in s.categories : r.id = id /\ IsLive(r)}
St_categories(s) == {r \in s.categories : IsLive(r)}
St_categories_of(s, category_type) ==
    {r \in s.categories : r.category_type = category_type /\ IsLive(r)}

St_plan(s, id) == {r \in s.plans : r.id = id /\ IsLive(r)}
St_plans(s) == {r \in s.plans : IsLive(r)}
St_plans_for(s, cat) == {r \in s.plans : r.category_id = cat /\ IsLive(r)}

(***************************************************************************)
(* DbStorage: the queries that synchronization uses.  A query yields the   *)
(* rows found, in the order of the statement, and the status returned.     *)
(* The statements on accounts, categories and plans end in ORDER BY        *)
(* timestamp, a column only the table of transactions has, so SQLite       *)
(* rejects them ("no such column: timestamp") whatever the table holds.    *)
(***************************************************************************)
Rows(rows, status) == [rows |-> rows, status |-> status]

\* The rows of a result one after the other: latest timestamp first where the
\* rows have one, and by identifier otherwise.
Before(x, y) ==
    IF "timestamp" \in DOMAIN x /\ x.timestamp # y.timestamp
    THEN x.timestamp > y.timestamp
    ELSE x.id <= y.id

RECURSIVE Ordered(_)
Ordered(rows) ==
    IF rows = {} THEN <<>>
    ELSE LET r == CHOOSE x \in rows : \A y \in rows : Before(x, y)
         IN  <<r>> \o Ordered(rows \ {r})

AddedSince(table, base) == {r \in table : r.meta_info.added_timestamp > base}
ChangedSince(table, base) ==
    {r \in table : r.meta_info.changed_timestamp # Null
                    /\ r.meta_info.changed_timestamp > base}
RemovedSince(table, base) ==
    {r \in table : r.meta_info.removed_timestamp # Null
                    /\ r.meta_info.removed_timestamp > base}

St_transactions_added_since(s, base) == Rows(Ordered(AddedSince(s.transactions, base)), "Ok")
St_transactions_changed_since(s, base) ==
    Rows(Ordered(ChangedSince(s.transactions, base)), "Ok")
St_transactions_removed_since(s, base) ==
    Rows(Ordered(RemovedSince(s.transactions, base)), "Ok")

St_accounts_added_since(s, base) == Rows(<<>>, "SqliteError")
St_accounts_changed_since(s, base) == Rows(<<>>, "SqliteError")
St_accounts_removed_since(s, base) == Rows(<<>>, "SqliteError")

St_categories_added_since(s, base) == Rows(<<>>, "SqliteError")
St_categories_changed_since(s, base) == Rows(<<>>, "SqliteError")
St_categories_removed_since(s, base) == Rows(<<>>, "SqliteError")

St_plans_added_since(s, base) == Rows(<<>>, "SqliteError")
St_plans_changed_since(s, base) == Rows(<<>>, "SqliteError")
St_plans_removed_since(s, base) == Rows(<<>>, "SqliteError")

(***************************************************************************)
(* DataStorage, the trait Budget is generic over: the same queries as the  *)
(* design describes them, each returning all the rows whose timestamp of   *)
(* that kind lies after the base.                                          *)
(***************************************************************************)
DataStorage_added_since(table, base) == Rows(Ordered(AddedSince(table, base)), "Ok")
DataStorage_changed_since(table, base) == Rows(Ordered(ChangedSince(table, base)), "Ok")
DataStorage_removed_since(table, base) == Rows(Ordered(RemovedSince(table, base)), "Ok")

(***************************************************************************)
(* DbStorage: statements that write.  Each yields the store afterwards and *)
(* the status returned.                                                    *)
(***************************************************************************)
Done(s, status) == [st |-> s, status |-> status]

\* ensure_consistency counting the removed rows as well.
ensure_consistency_counting_removed(table, foreign_key, value) ==
    Cardinality({r \in table : r[foreign_key] = value}) = 0

\* SELECT COUNT( * ) FROM table WHERE _removal_timestamp IS NULL AND key = value
ensure_consistency(table, foreign_key, value) ==
    Cardinality({r \in table : IsLive(r) /\ r[foreign_key] = value}) = 0

\* is_predefined_category knowing the income category only.
is_predefined_category_income_only(id) == id = TRANSFER_INCOME_ID

is_predefined_category(id) == id \in {TRANSFER_INCOME_ID, TRANSFER_OUTCOME_ID}

\* A row's identifier: the one given, or the DEFAULT (randomblob(16)).
RowId(given, rnd) == IF given = NoId THEN rnd ELSE given

St_add_transaction(s, t, rnd) ==
    LET id == RowId(t.id, rnd)
        row == [t EXCEPT !.id = id, !.meta_info = InsertedMeta(@)]
    IN  IF \/ id \in Ids(s.transactions)
           \/ t.meta_info.added_timestamp = Null
           \/ foreign_keys /\ (t.account_id \notin Ids(s.accounts)
                               \/ t.category_id \notin Ids(s.categories))
        THEN Done(s, "SqliteError")
        ELSE Done([s EXCEPT !.transactions = @ \cup {row}], "Ok")

St_remove_transaction(s, id, removal_timestamp) ==
    Done([s EXCEPT !.transactions =
            {IF r.id = id
                THEN [r EXCEPT !.meta_info.removed_timestamp = removal_timestamp]
                ELSE r : r \in @}], "Ok")

St_add_account(s, a, rnd) ==
    LET id == RowId(a.id, rnd)
        row == [a EXCEPT !.id = id, !.meta_info = InsertedMeta(@)]
    IN  IF id \in Ids(s.accounts) \/ a.meta_info.added_timestamp = Null
        THEN Done(s, "SqliteError")
        ELSE Done([s EXCEPT !.accounts = @ \cup {row}], "Ok")

\* An update_account that sets _change_timestamp.
St_update_account_stamping(s, a) ==
    Done([s EXCEPT !.accounts =
            {IF r.id = a.id /\ IsLive(r)
                THEN [r EXCEPT !.name = a.name, !.balance = a.balance,
                               !.meta_info.changed_timestamp = r.meta_info.added_timestamp]
                ELSE r : r \in @}], "Ok")

\* An update_account that also takes the balance as the initial balance.
St_update_account_rebasing(s, a) ==
    Done([s EXCEPT !.accounts =
            {IF r.id = a.id /\ IsLive(r)
                THEN [r EXCEPT !.name = a.name, !.balance = a.balance,
                               !.initial_balance = a.balance]
                ELSE r : r \in @}], "Ok")

St_update_account(s, a) ==
    Done([s EXCEPT !.accounts =
            {IF r.id = a.id /\ IsLive(r)
                THEN [r EXCEPT !.name = a.name, !.balance = a.balance]
                ELSE r : r \in @}], "Ok")

St_remove_account(s, id, removal_timestamp) ==
    IF ~ensure_consistency(s.transactions, "account_id", id)
    THEN Done(s, "ConsistencyViolation")
    ELSE Done([s EXCEPT !.accounts =
            {IF r.id = id
                THEN [r EXCEPT !.meta_info.removed_timestamp = removal_timestamp]
                ELSE r : r \in @}], "Ok")

St_add_category(s, c, rnd) ==
    LET id == RowId(c.id, rnd)
        row == [c EXCEPT !.id = id, !.meta_info = InsertedMeta(@)]
    IN  IF id \in Ids(s.categories) \/ c.meta_info.added_timestamp = Null
        THEN Done(s, "SqliteError")
        ELSE Done([s EXCEPT !.categories = @ \cup {row}], "Ok")

\* remove_category that does not look at the plans.
St_remove_category_ignoring_plans(s, id, removal_timestamp) ==
    IF is_predefined_category(id)
    THEN Done(s, "CannotDeletePredefined")
    ELSE IF ~ensure_consistency(s.transactions, "category_id", id)
    THEN Done(s, "ConsistencyViolation")
    ELSE Done([s EXCEPT !.categories =
            {IF r.id = id
                THEN [r EXCEPT !.meta_info.removed_timestamp = removal_timestamp]
                ELSE r : r \in @}], "Ok")

St_remove_category(s, id, removal_timestamp) ==
    IF is_predefined_category(id)
    THEN Done(s, "CannotDeletePredefined")
    ELSE IF ~ensure_consistency(s.transactions, "category_id", id)
    THEN Done(s, "ConsistencyViolation")
    ELSE IF ~ensure_consistency(s.plans, "category_id", id)
    THEN Done(s, "ConsistencyViolation")
    ELSE Done([s EXCEPT !.categories =
            {IF r.id = id
                THEN [r EXCEPT !.meta_info.removed_timestamp = removal_timestamp]
                ELSE r : r \in @}], "Ok")

St_add_plan(s, p, rnd) ==
    LET id == RowId(p.id, rnd)
        row == [p EXCEPT !.id = id, !.meta_info = InsertedMeta(@)]
    IN  IF \/ id \in Ids(s.plans)
           \/ p.meta_info.added_timestamp = Null
           \/ foreign_keys /\ p.category_id \notin Ids(s.categories)
        THEN Done(s, "SqliteError")
        ELSE Done([s EXCEPT !.plans = @ \cup {row}], "Ok")

St_remove_plan(s, id, removal_timestamp) ==
    Done([s EXCEPT !.plans =
            {IF r.id = id
                THEN [r EXCEPT !.meta_info.removed_timestamp = removal_timestamp]
                ELSE r : r \in @}], "Ok")

\* Four DELETE statements run one after the other, each committed on its
\* own; with foreign keys enforced, deleting a row that a remaining row
\* references fails and the batch stops there.
St_clean_removed(s) ==
    LET s1 == [s EXCEPT !.plans = {r \in @ : IsLive(r)}]
        s2 == [s1 EXCEPT !.transactions = {r \in @ : IsLive(r)}]
        deadCats == Ids({r \in s2.categories : ~IsLive(r)})
        s3 == [s2 EXCEPT !.categories = {r \in @ : IsLive(r)}]
        deadAccs == Ids({r \in s3.accounts : ~IsLive(r)})
        s4 == [s3 EXCEPT !.accounts = {r \in @ : IsLive(r)}]
    IN  IF foreign_keys /\ \E r \in s2.transactions \cup s2.plans : r.category_id \in deadCats
        THEN Done(s2, "SqliteError")
        ELSE IF foreign_keys /\ \E r \in s3.transactions : r.account_id \in deadAccs
        THEN Done(s3, "SqliteError")
        ELSE Done(s4, "Ok")

(***************************************************************************)
(* Budget (core/budget.rs): the local operations.  A lookup of a single    *)
(* row ends in Vec::remove(0), which panics when the query found nothing.  *)
(***************************************************************************)
TheRow(found) == CHOOSE r \in found : TRUE

\* What the database answers to the two statements of add_transaction: "Ok",
\* the statement runs, or an error of SQLite that is not of the statement's
\* making (the disk, a lock), and then the statement writes nothing.
NoFault == [insert |-> "Ok", update |-> "Ok"]
Faults == [insert : {"Ok", "SqliteError"}, update : {"Ok", "SqliteError"}]

\* An add_transaction that updates the account before it inserts.
add_transaction_update_first(i, s, t, rnd, io) ==
    LET found == St_account(s, t.account_id)
        decrypted_account == decrypt_account(i, TheRow(found))
        updated == [decrypted_account EXCEPT !.balance = @ + t.amount]
        changed == IF io.update # "Ok" THEN Done(s, io.update)
                   ELSE St_update_account(s, encrypt_account(i, updated))
    IN  IF found = {} THEN Done(s, "Panic")
        ELSE IF changed.status # "Ok" THEN changed
        ELSE IF io.insert # "Ok" THEN Done(changed.st, io.insert)
        ELSE St_add_transaction(changed.st, encrypt_transaction(i, t), rnd)

add_transaction_io(i, s, t, rnd, io) ==
    LET found == St_account(s, t.account_id)
        decrypted_account == decrypt_account(i, TheRow(found))
        updated == [decrypted_account EXCEPT !.balance = @ + t.amount]
        inserted == IF io.insert # "Ok" THEN Done(s, io.insert)
                    ELSE St_add_transaction(s, encrypt_transaction(i, t), rnd)
    IN  IF found = {} THEN Done(s, "Panic")
        ELSE IF inserted.status # "Ok" THEN inserted
        ELSE IF io.update # "Ok" THEN Done(inserted.st, io.update)
        ELSE St_update_account(inserted.st, encrypt_account(i, updated))

add_transaction(i, s, t, rnd) == add_transaction_io(i, s, t, rnd, NoFault)

\* An abs that keeps the sign.
Abs_keeping_sign(n) == n

Abs(n) == IF n < 0 THEN 0 - n ELSE n

add_transfer(i, s, amount, from_account, to_account, timestamp, rnd1, rnd2) ==
    LET amt == Abs(amount)
        income == add_transaction(i, s,
            [id |-> NoId, timestamp |-> timestamp, description |-> "income",
             account_id |-> to_account, category_id |-> TRANSFER_INCOME_ID,
             amount |-> amt, meta_info |-> MetaInfo_new(i, timestamp, Null, Null)], rnd1)
        outcome == add_transaction(i, income.st,
            [id |-> NoId, timestamp |-> timestamp, description |-> "outcome",
             account_id |-> from_account, category_id |-> TRANSFER_OUTCOME_ID,
             amount |-> 0 - amt, meta_info |-> MetaInfo_new(i, timestamp, Null, Null)], rnd2)
    IN  IF income.status # "Ok" THEN income ELSE outcome

\* A remove_transaction that never touches the account.
remove_transaction_without_update(i, s, id, emergency, removal_timestamp) ==
    St_remove_transaction(s, id, removal_timestamp)

\* A remove_transaction that takes the amount back whatever the flag says.
remove_transaction_always_reversing(i, s, id, emergency, removal_timestamp) ==
    LET found == St_transaction(s, id)
        decrypted_transaction == decrypt_transaction(i, TheRow(found))
        owner == St_account(s, decrypted_transaction.account_id)
        decrypted_account == decrypt_account(i, TheRow(owner))
        updated == [decrypted_account EXCEPT !.balance = @ - decrypted_transaction.amount]
    IN  IF found = {} THEN Done(s, "Panic")
        ELSE IF owner = {} THEN Done(s, "Panic")
        ELSE St_remove_transaction(
                St_update_account(s, encrypt_account(i, updated)).st,
                id, removal_timestamp)

remove_transaction(i, s, id, emergency, removal_timestamp) ==
    LET found == St_transaction(s, id)
        decrypted_transaction == decrypt_transaction(i, TheRow(found))
        owner == St_account(s, decrypted_transaction.account_id)
        decrypted_account == decrypt_account(i, TheRow(owner))
        updated == [decrypted_account EXCEPT !.balance = @ - decrypted_transaction.amount]
    IN  IF emergency THEN St_remove_transaction(s, id, removal_timestamp)
        ELSE IF found = {} THEN Done(s, "Panic")
        ELSE IF owner = {} THEN Done(s, "Panic")
        ELSE St_remove_transaction(
                St_update_account(s, encrypt_account(i, updated)).st,
                id, removal_timestamp)

add_account(i, s, a, rnd) == St_add_account(s, encrypt_account(i, a), rnd)

RECURSIVE RemoveEach(_, _, _)
RemoveEach(s, ids, removal_timestamp) ==
    IF ids = {} THEN s
    ELSE LET id == CHOOSE x \in ids : TRUE
         IN  RemoveEach(St_remove_transaction(s, id, removal_timestamp).st,
                        ids \ {id}, removal_timestamp)

\* A remove_account that never removes the transactions first.
remove_account_never_cascading(i, s, id, force, removal_timestamp) ==
    St_remove_account(s, id, removal_timestamp)

remove_account(i, s, id, force, removal_timestamp) ==
    LET cascaded == IF force
                    THEN RemoveEach(s, Ids(St_transactions_of(s, id)), removal_timestamp)
                    ELSE s
    IN  St_remove_account(cascaded, id, removal_timestamp)

add_category(i, s, c, rnd) == St_add_category(s, encrypt_category(i, c), rnd)

remove_category(i, s, id, removal_timestamp) == St_remove_category(s, id, removal_timestamp)

add_plan(i, s, p, rnd) == St_add_plan(s, encrypt_plan(i, p), rnd)

remove_plan(i, s, id, removal_timestamp) == St_remove_plan(s, id, removal_timestamp)

clean_removed(i, s) == St_clean_removed(s)

initialize(i, s) ==
    LET income == add_category(i, s,
            [id |-> TRANSFER_INCOME_ID, name |-> "Transfer (income)",
             category_type |-> "Income",
             meta_info |-> MetaInfo_new(i, JANUARY_1970, Null, Null)], NoId)
        outcome == add_category(i, income.st,
            [id |-> TRANSFER_OUTCOME_ID, name |-> "Transfer (outcome)",
             category_type |-> "Outcome",
             meta_info |-> MetaInfo_new(i, JANUARY_1970, Null, Null)], NoId)
    IN  IF income.status # "Ok" THEN income ELSE outcome

(***************************************************************************)
(* Budget: the queries of synchronization, decrypted.  self.storage is the *)
(* DataStorage the Budget was built with.                                  *)
(***************************************************************************)
decrypt_transactions(i, q) ==
    Rows([k \in DOMAIN q.rows |-> decrypt_transaction(i, q.rows[k])], q.status)
decrypt_accounts(i, q) ==
    Rows([k \in DOMAIN q.rows |-> decrypt_account(i, q.rows[k])], q.status)
decrypt_categories(i, q) ==
    Rows([k \in DOMAIN q.rows |-> decrypt_category(i, q.rows[k])], q.status)
decrypt_plans(i, q) ==
    Rows([k \in DOMAIN q.rows |-> decrypt_plan(i, q.rows[k])], q.status)

OfStorage(db, ds) == IF backend = "DbStorage" THEN db ELSE ds

transactions_added_since(i, s, base) ==
    decrypt_transactions(i, OfStorage(St_transactions_added_since(s, base),
                           DataStorage_added_since(s.transactions, base)))
transactions_changed_since(i, s, base) ==
    decrypt_transactions(i, OfStorage(St_transactions_changed_since(s, base),
                           DataStorage_changed_since(s.transactions, base)))
transactions_removed_since(i, s, base) ==
    decrypt_transactions(i, OfStorage(St_transactions_removed_since(s, base),
                           DataStorage_removed_since(s.transactions, base)))

accounts_added_since(i, s, base) ==
    decrypt_accounts(i, OfStorage(St_accounts_added_since(s, base),
                           DataStorage_added_since(s.accounts, base)))
accounts_changed_since(i, s, base) ==
    decrypt_accounts(i, OfStorage(St_accounts_changed_since(s, base),
                           DataStorage_changed_since(s.accounts, base)))
accounts_removed_since(i, s, base) ==
    decrypt_accounts(i, OfStorage(St_accounts_removed_since(s, base),
                           DataStorage_removed_since(s.accounts, base)))

categories_added_since(i, s, base) ==
    decrypt_categories(i, OfStorage(St_categories_added_since(s, base),
                           DataStorage_added_since(s.categories, base)))
categories_changed_since(i, s, base) ==
    decrypt_categories(i, OfStorage(St_categories_changed_since(s, base),
                           DataStorage_changed_since(s.categories, base)))
categories_removed_since(i, s, base) ==
    decrypt_categories(i, OfStorage(St_categories_removed_since(s, base),
                           DataStorage_removed_since(s.categories, base)))

plans_added_since(i, s, base) ==
    decrypt_plans(i, OfStorage(St_plans_added_since(s, base),
                           DataStorage_added_since(s.plans, base)))
plans_changed_since(i, s, base) ==
    decrypt_plans(i, OfStorage(St_plans_changed_since(s, base),
                           DataStorage_changed_since(s.plans, base)))
plans_removed_since(i, s, base) ==
    decrypt_plans(i, OfStorage(St_plans_removed_since(s, base),
                           DataStorage_removed_since(s.plans, base)))

(***************************************************************************)
(* core/changelog.rs                                                       *)
(***************************************************************************)
SimpleChangelog(added, changed, removed) ==
    [added |-> added, changed |-> changed, removed |-> removed]

Changelog_new ==
    [accounts |-> SimpleChangelog(<<>>, <<>>, <<>>),
     categories |-> SimpleChangelog(<<>>, <<>>, <<>>),
     transactions |-> SimpleChangelog(<<>>, <<>>, <<>>),
     plans |-> SimpleChangelog(<<>>, <<>>, <<>>)]

\* An append that keeps the appended changelog only.
Changelog_append_replacing(self, changelog) == changelog

Changelog_append(self, changelog) ==
    [kind \in DOMAIN self |->
        SimpleChangelog(self[kind].added \o changelog[kind].added,
                        self[kind].changed \o changelog[kind].changed,
                        self[kind].removed \o changelog[kind].removed)]

(***************************************************************************)
(* Budget: export of the local changes and merge of the remote ones.       *)
(***************************************************************************)
\* The changelog of the answers to the twelve queries; the first query that
\* fails ends the export.
ExportOf(queries) ==
    LET failed == {k \in DOMAIN queries : queries[k].status # "Ok"}
        first == CHOOSE k \in failed : \A j \in failed : k <= j
    IN  IF failed # {}
        THEN [changelog |-> Changelog_new, status |-> queries[first].status]
        ELSE [changelog |->
                [accounts |-> SimpleChangelog(queries[1].rows, queries[2].rows,
                                              queries[3].rows),
                 categories |-> SimpleChangelog(queries[4].rows, queries[5].rows,
                                                queries[6].rows),
                 plans |-> SimpleChangelog(queries[7].rows, queries[8].rows,
                                           queries[9].rows),
                 transactions |-> SimpleChangelog(queries[10].rows, queries[11].rows,
                                                  queries[12].rows)],
              status |-> "Ok"]

\* The queries in the order export_local_changes makes them.
export_local_changes(i, s, last_sync) ==
    ExportOf(<<
        accounts_added_since(i, s, last_sync),
        accounts_changed_since(i, s, last_sync),
        accounts_removed_since(i, s, last_sync),
        categories_added_since(i, s, last_sync),
        categories_changed_since(i, s, last_sync),
        categories_removed_since(i, s, last_sync),
        plans_added_since(i, s, last_sync),
        plans_changed_since(i, s, last_sync),
        plans_removed_since(i, s, last_sync),
        transactions_added_since(i, s, last_sync),
        transactions_changed_since(i, s, last_sync),
        transactions_removed_since(i, s, last_sync) >>)

\* The filter without the test of the origin.
MergeFilter_any_origin(i, timestamp, origin, last_sync) == timestamp >= last_sync

\* The filter of every merge step: the entry's timestamp is not before the
\* last synchronization and the entry comes from another instance.
MergeFilter(i, timestamp, origin, last_sync) == timestamp >= last_sync /\ origin # i

\* The steps of merge_changes in their order: what is added, accounts first,
\* then what is removed, in the reverse order.
MergeOrder ==
    << <<"accounts", "added">>, <<"categories", "added">>, <<"plans", "added">>,
       <<"transactions", "added">>, <<"transactions", "removed">>,
       <<"plans", "removed">>, <<"categories", "removed">>, <<"accounts", "removed">> >>

MergeTimestamp(step, item) ==
    IF step[2] = "added" THEN item.meta_info.added_timestamp
    ELSE item.meta_info.removed_timestamp

\* A merge that tombstones with the time of the local clock.
MergeOperation_stamping_now(i, s, step, item) ==
    CASE step = <<"accounts", "added">> ->
            add_account(i, s, [item EXCEPT !.balance = item.initial_balance], NoId)
      [] step = <<"categories", "added">> -> add_category(i, s, item, NoId)
      [] step = <<"plans", "added">> -> add_plan(i, s, item, NoId)
      [] step = <<"transactions", "added">> -> add_transaction(i, s, item, NoId)
      [] step = <<"transactions", "removed">> ->
            remove_transaction(i, s, item.id, FALSE, now)
      [] step = <<"plans", "removed">> ->
            remove_plan(i, s, item.id, now)
      [] step = <<"categories", "removed">> ->
            remove_category(i, s, item.id, now)
      [] step = <<"accounts", "removed">> ->
            remove_account(i, s, item.id, FALSE, now)

\* A merge that adds an account with the balance the changelog gives.
MergeOperation_keeping_balance(i, s, step, item) ==
    CASE step = <<"accounts", "added">> ->
            add_account(i, s, item, NoId)
      [] step = <<"categories", "added">> -> add_category(i, s, item, NoId)
      [] step = <<"plans", "added">> -> add_plan(i, s, item, NoId)
      [] step = <<"transactions", "added">> -> add_transaction(i, s, item, NoId)
      [] step = <<"transactions", "removed">> ->
            remove_transaction(i, s, item.id, FALSE, item.meta_info.removed_timestamp)
      [] step = <<"plans", "removed">> ->
            remove_plan(i, s, item.id, item.meta_info.removed_timestamp)
      [] step = <<"categories", "removed">> ->
            remove_category(i, s, item.id, item.meta_info.removed_timestamp)
      [] step = <<"accounts", "removed">> ->
            remove_account(i, s, item.id, FALSE, item.meta_info.removed_timestamp)

MergeOperation(i, s, step, item) ==
    CASE step = <<"accounts", "added">> ->
            add_account(i, s, [item EXCEPT !.balance = item.initial_balance], NoId)
      [] step = <<"categories", "added">> -> add_category(i, s, item, NoId)
      [] step = <<"plans", "added">> -> add_plan(i, s, item, NoId)
      [] step = <<"transactions", "added">> -> add_transaction(i, s, item, NoId)
      [] step = <<"transactions", "removed">> ->
            remove_transaction(i, s, item.id, FALSE, item.meta_info.removed_timestamp)
      [] step = <<"plans", "removed">> ->
            remove_plan(i, s, item.id, item.meta_info.removed_timestamp)
      [] step = <<"categories", "removed">> ->
            remove_category(i, s, item.id, item.meta_info.removed_timestamp)
      [] step = <<"accounts", "removed">> ->
            remove_account(i, s, item.id, FALSE, item.meta_info.removed_timestamp)

RECURSIVE merge_step(_, _, _, _, _, _), MergeRest(_, _, _, _, _, _)
merge_step(i, s, items, step, last_sync, k) ==
    IF k > Len(items) THEN Done(s, "Ok")
    ELSE IF ~MergeFilter(i, MergeTimestamp(step, items[k]),
                         items[k].meta_info.origin, last_sync)
    THEN merge_step(i, s, items, step, last_sync, k + 1)
    ELSE MergeRest(i, MergeOperation(i, s, step, items[k]), items, step, last_sync, k)

\* `?` after each operation: the first failure ends the merge.
MergeRest(i, r, items, step, last_sync, k) ==
    IF r.status # "Ok" THEN r ELSE merge_step(i, r.st, items, step, last_sync, k + 1)

RECURSIVE MergeFrom(_, _, _, _, _), MergeNext(_, _, _, _, _)
MergeFrom(i, s, changelog, last_sync, n) ==
    IF n > Len(MergeOrder) THEN Done(s, "Ok")
    ELSE MergeNext(i, merge_step(i, s, changelog[MergeOrder[n][1]][MergeOrder[n][2]],
                                 MergeOrder[n], last_sync, 1),
                   changelog, last_sync, n)

MergeNext(i, r, changelog, last_sync, n) ==
    IF r.status # "Ok" THEN r ELSE MergeFrom(i, r.st, changelog, last_sync, n + 1)

merge_changes(i, s, changelog, last_sync) == MergeFrom(i, s, changelog, last_sync, 1)

(***************************************************************************)
(* Budget: merge_and_export_changes over the three files of the artifact.  *)
(* A file is the sequence of the values written to it: empty, or one value. *)
(***************************************************************************)
\* Timestamp::timestamp() and Timestamp::from_timestamp(seconds, 0)
Seconds(timestamp) == timestamp \div TicksPerSecond
from_timestamp(seconds) == seconds * TicksPerSecond

EmptyFiles == [timestamp |-> <<>>, instance |-> <<>>, changelog |-> <<>>]

empty_sync_files(files) ==
    IF Len(files.timestamp) = 0 /\ Len(files.instance) = 0 /\ Len(files.changelog) = 0
    THEN [empty |-> TRUE, status |-> "Ok"]
    ELSE IF Len(files.timestamp) >= 1 /\ Len(files.instance) >= 1
    THEN [empty |-> FALSE, status |-> "Ok"]
    ELSE [empty |-> FALSE, status |-> "MalformedFiles"]

\* A read that fails yields 0 seconds.  <<Null>> is a file that has bytes,
\* but fewer than the 8 of a timestamp.
read_timestamp(file) ==
    from_timestamp(IF Len(file) >= 1 /\ file[1] # Null THEN file[1] ELSE 0)

\* A salt made of the timestamp as it is, fraction of the second included.
make_key_derivation_salt_subsecond(timestamp, instance) == <<timestamp, instance>>

make_key_derivation_salt(timestamp, instance) == <<Seconds(timestamp), instance>>
derive_key(auth, salt) == <<auth, salt>>

\* A decryption that hands out the plaintext whatever the key.
decrypt_symmetric_unauthenticated(key, file) ==
    IF Len(file) = 0 THEN [pt |-> Changelog_new, status |-> "Panic"]
    ELSE [pt |-> decrypt(key, file[1]), status |-> "Ok"]

\* The nonce is split off the ciphertext first: split_at panics on a
\* ciphertext that is shorter than the nonce, an empty one in particular.
decrypt_symmetric(key, file) ==
    IF Len(file) = 0 THEN [pt |-> Changelog_new, status |-> "Panic"]
    ELSE IF file[1].key = key
    THEN [pt |-> decrypt(key, file[1]), status |-> "Ok"]
    ELSE [pt |-> Changelog_new, status |-> "CryptoError"]

\* The length of a file in bytes: 8 of a timestamp, 16 of an instance, and
\* nonce, serialized changelog and tag of the changelog, an entry of which
\* counts for one byte here.
to_vec(changelog) ==
    LET SizeOf(kind) == Len(changelog[kind].added) + Len(changelog[kind].changed)
                            + Len(changelog[kind].removed) + 3
    IN  SizeOf("accounts") + SizeOf("categories") + SizeOf("plans")
            + SizeOf("transactions") + 1

FileSize(name, file) ==
    IF Len(file) = 0 THEN 0
    ELSE IF name = "timestamp" THEN 8
    ELSE IF name = "instance" THEN 16
    ELSE 12 + to_vec(file[1].pt) + 16

\* prepare_for_overwrite rewinds and does not truncate: the bytes of the
\* file that lie beyond the end of what is then written stay in it.
prepare_for_overwrite(name, old, new) ==
    IF FileSize(name, old) > FileSize(name, new)
    THEN FileSize(name, old) - FileSize(name, new)
    ELSE 0

\* What a synchronization leaves: the store, the files, the status, and the
\* local changes it exported.
Exchange(s, files, status, exported) ==
    [st |-> s, files |-> files, status |-> status, exported |-> exported]

\* The end of merge_and_export_changes: the local changes are appended to
\* the cumulative changelog and the three files are written anew.
ExportMerged(i, s, files, auth, local_timestamp, cumulative_changelog, local_changelog, merged) ==
    IF local_changelog.status # "Ok"
    THEN Exchange(s, files, local_changelog.status, Changelog_new)
    ELSE IF merged.status # "Ok"
    THEN Exchange(merged.st, files, merged.status, local_changelog.changelog)
    ELSE Exchange(merged.st,
            [timestamp |-> <<Seconds(local_timestamp)>>,
             instance |-> <<i>>,
             changelog |-> <<encrypt(
                    derive_key(auth, make_key_derivation_salt(local_timestamp, i)),
                    Changelog_append(cumulative_changelog, local_changelog.changelog))>>],
            "Ok", local_changelog.changelog)

merge_and_export_changes(i, s, files, last_sync, auth, local_timestamp) ==
    LET e == empty_sync_files(files)
        remote_timestamp == read_timestamp(files.timestamp)
        remote_instance == files.instance[1]
        decryption_key ==
            derive_key(auth, make_key_derivation_salt(remote_timestamp, remote_instance))
        opened == decrypt_symmetric(decryption_key, files.changelog)
        cumulative_changelog == IF e.empty THEN Changelog_new ELSE opened.pt
    IN  IF e.status # "Ok" THEN Exchange(s, files, e.status, Changelog_new)
        ELSE IF ~e.empty /\ opened.status # "Ok"
        THEN Exchange(s, files, opened.status, Changelog_new)
        ELSE ExportMerged(i, s, files, auth, local_timestamp, cumulative_changelog,
                          export_local_changes(i, s, last_sync),
                          merge_changes(i, s, cumulative_changelog, last_sync))

(***************************************************************************)
(* GitSyncEngine (sync/git_engine.rs).  The branch of the remote is the    *)
(* number of commits pushed to it; a clone knows the commit of the remote  *)
(* it builds on (version) and whether it has a commit of its own on top    *)
(* (ahead).  last_sync is the last-sync file, in seconds.                  *)
(***************************************************************************)
GitSyncEngine_create ==
    [version |-> 0, ahead |-> FALSE, files |-> EmptyFiles,
     last_sync |-> Seconds(FIRST_AFTER_JANUARY_1970)]

\* fetch and merge analysis: nothing to do, fast-forward, or a conflict.
\* A pull_remote that fast-forwards and only then reports the failure.
pull_remote_writing_first(r, origin, fetched) ==
    IF r.ahead \/ ~fetched
    THEN [repo |-> [r EXCEPT !.version = origin.version, !.files = origin.files],
          status |-> "RemoteConflict"]
    ELSE [repo |-> [r EXCEPT !.version = origin.version, !.files = origin.files],
          status |-> "Ok"]

pull_remote(r, origin, fetched) ==
    IF ~fetched THEN [repo |-> r, status |-> "TransportError"]
    ELSE IF origin.version = 0 THEN [repo |-> r, status |-> "Ok"]
    ELSE IF origin.version = r.version THEN [repo |-> r, status |-> "Ok"]
    ELSE IF r.ahead THEN [repo |-> r, status |-> "RemoteConflict"]
    ELSE [repo |-> [r EXCEPT !.version = origin.version, !.files = origin.files],
          status |-> "Ok"]

\* A read that fails yields 0 seconds.  A last_sync of Null is a file with
\* fewer than the 8 bytes of a timestamp.
read_last_sync(r) == from_timestamp(IF r.last_sync # Null THEN r.last_sync ELSE 0)

Synced(s, r, origin, status, exported) ==
    [st |-> s, repo |-> r, remote |-> origin, status |-> status, exported |-> exported]

\* After merge_and_export_changes: write the last-sync file, commit, push.
\* `net` tells whether the fetch and the push reach the remote.
CommitAndPush(r, origin, net, x) ==
    LET committed == [r EXCEPT !.files = x.files,
                               !.last_sync = Seconds(now),
                               !.ahead = TRUE]
        accepted == [version |-> origin.version + 1, files |-> x.files]
    IN  IF x.status # "Ok" THEN Synced(x.st, r, origin, x.status, x.exported)
        ELSE IF ~net.push THEN Synced(x.st, committed, origin, "PushError", x.exported)
        ELSE Synced(x.st,
                    [committed EXCEPT !.version = accepted.version, !.ahead = FALSE],
                    accepted, "Ok", x.exported)

GitSyncEngine_perform_sync(i, s, r, origin, auth, net) ==
    LET pulled == pull_remote(r, origin, net.fetch)
    IN  IF pulled.status # "Ok"
        THEN Synced(s, pulled.repo, origin, pulled.status, Changelog_new)
        ELSE CommitAndPush(pulled.repo, origin, net,
                merge_and_export_changes(i, s, pulled.repo.files,
                                         read_last_sync(pulled.repo), auth, now))

\* Budget::perform_sync: the engine's synchronization, then the purge.
Purged(i, synced) ==
    IF synced.status # "Ok" THEN synced
    ELSE [synced EXCEPT !.st = clean_removed(i, synced.st).st,
                        !.status = clean_removed(i, synced.st).status]

perform_sync(i, s, r, origin, auth, net) ==
    Purged(i, GitSyncEngine_perform_sync(i, s, r, origin, auth, net))

(***************************************************************************)
(* The state after construction: empty databases.                          *)
(***************************************************************************)
EmptyStore == [accounts |-> {}, categories |-> {}, plans |-> {}, transactions |-> {}]

\* dirty[i]: instance i has changed its store since its last successful
\* synchronization; synced[i]: the commit of the remote that synchronization
\* made; last_change: the last commit of the remote that carried changes;
\* pushing[i]: instance i has committed and its push is on its way;
\* accepted: the pushes the remote has accepted, one after the other.
NoProgress ==
    [dirty |-> [i \in Instances |-> FALSE], synced |-> [i \in Instances |-> 0],
     last_change |-> 0, pushing |-> [i \in Instances |-> FALSE], accepted |-> <<>>]

Init ==
    /\ storage = [i \in Instances |-> EmptyStore]
    /\ next_id = [accounts |-> 0, categories |-> 0, plans |-> 0, transactions |-> 0]
    /\ now = StartTime
    /\ foreign_keys \in BOOLEAN
    /\ backend = "DbStorage"
    /\ repo = [i \in Instances |-> GitSyncEngine_create]
    /\ remote = [version |-> 0, files |-> EmptyFiles]
    /\ progress = NoProgress
    /\ calls = 0
    /\ crypto = NoCrypto

\* How many rows the call added to `table` under identifiers of the database's
\* own choice.
Added(i, r, table) == Cardinality(r.st[table]) - Cardinality(storage[i][table])

\* A call on instance i that ends as r: whatever it returned, the database
\* keeps what the statements that ran have written.
Returns(i, r) ==
    /\ calls < MaxCalls
    /\ calls' = calls + 1
    /\ storage' = [storage EXCEPT ![i] = r.st]
    /\ progress' = [progress EXCEPT !.dirty[i] = @ \/ r.st # storage[i]]
    /\ UNCHANGED <<now, foreign_keys, backend, repo, remote, crypto>>

(***************************************************************************)
(* The calls a user of instance i can make.                                *)
(***************************************************************************)
Tick ==
    /\ now < StartTime + MaxTime
    /\ calls < MaxCalls
    /\ now' = now + 1
    /\ calls' = calls + 1
    /\ UNCHANGED <<storage, next_id, foreign_keys, backend, repo, remote, progress, crypto>>

Initialize(i) ==
    /\ Returns(i, initialize(i, storage[i]))
    /\ UNCHANGED next_id

\* A new account starts with its balance equal to its initial balance.
AddAccount(i) ==
    \E initial_balance \in InitialBalances :
        /\ next_id.accounts < MaxAccounts
        /\ LET r == add_account(i, storage[i],
                        [id |-> NoId, name |-> "A", balance |-> initial_balance,
                         initial_balance |-> initial_balance,
                         meta_info |-> MetaInfo_new(i, now, Null, Null)],
                        next_id.accounts + 1)
           IN  /\ Returns(i, r)
               /\ next_id' = [next_id EXCEPT !.accounts = @ + Added(i, r, "accounts")]

RemoveAccountWith(i, force) ==
    \E id \in AccountIds :
        /\ Returns(i, remove_account(i, storage[i], id, force, now))
        /\ UNCHANGED next_id

RemoveAccount(i) == \E force \in BOOLEAN : RemoveAccountWith(i, force)

AddCategoryOf(i, ids, types) ==
    \E id \in ids, type \in types :
        /\ id = NoId => next_id.categories < MaxCategories
        /\ LET r == add_category(i, storage[i],
                        [id |-> id, name |-> "C", category_type |-> type,
                         meta_info |-> MetaInfo_new(i, now, Null, Null)],
                        next_id.categories + 1)
           IN  /\ Returns(i, r)
               /\ next_id' = [next_id EXCEPT !.categories =
                                @ + (IF id = NoId THEN Added(i, r, "categories") ELSE 0)]

AddCategory(i) ==
    AddCategoryOf(i, {NoId, TRANSFER_INCOME_ID, TRANSFER_OUTCOME_ID}, CategoryTypes)

RemoveCategory(i) ==
    \E id \in CategoryIds :
        /\ Returns(i, remove_category(i, storage[i], id, now))
        /\ UNCHANGED next_id

AddPlan(i) ==
    \E cat \in CategoryIds :
        /\ next_id.plans < MaxPlans
        /\ LET r == add_plan(i, storage[i],
                        [id |-> NoId, category_id |-> cat, name |-> "P", amount_limit |-> 1,
                         meta_info |-> MetaInfo_new(i, now, Null, Null)],
                        next_id.plans + 1)
           IN  /\ Returns(i, r)
               /\ next_id' = [next_id EXCEPT !.plans = @ + Added(i, r, "plans")]

RemovePlan(i) ==
    \E id \in PlanIds :
        /\ Returns(i, remove_plan(i, storage[i], id, now))
        /\ UNCHANGED next_id

AddTransactionOf(i, categories, amounts) ==
    \E acc \in AccountIds, cat \in categories, amount \in amounts :
        /\ next_id.transactions < MaxTransactions
        /\ LET r == add_transaction(i, storage[i],
                        [id |-> NoId, timestamp |-> now, description |-> "D",
                         account_id |-> acc, category_id |-> cat, amount |-> amount,
                         meta_info |-> MetaInfo_new(i, now, Null, Null)],
                        next_id.transactions + 1)
           IN  /\ Returns(i, r)
               /\ next_id' = [next_id EXCEPT !.transactions = @ + Added(i, r, "transactions")]

AddTransaction(i) == AddTransactionOf(i, CategoryIds, Amounts)

\* add_transaction on a database that may fail either statement.
AddTransactionIo(i) ==
    \E acc \in AccountIds, amount \in Amounts, io \in Faults :
        /\ next_id.transactions < MaxTransactions
        /\ LET r == add_transaction_io(i, storage[i],
                        [id |-> NoId, timestamp |-> now, description |-> "D",
                         account_id |-> acc, category_id |-> TRANSFER_INCOME_ID,
                         amount |-> amount,
                         meta_info |-> MetaInfo_new(i, now, Null, Null)],
                        next_id.transactions + 1, io)
           IN  /\ Returns(i, r)
               /\ next_id' = [next_id EXCEPT !.transactions = @ + Added(i, r, "transactions")]

AddTransfer(i) ==
    \E from \in AccountIds, to \in AccountIds, amount \in Amounts :
        /\ next_id.transactions + 2 <= MaxTransactions
        /\ LET r == add_transfer(i, storage[i], amount, from, to, now,
                                 next_id.transactions + 1, next_id.transactions + 2)
           IN  /\ Returns(i, r)
               /\ next_id' = [next_id EXCEPT !.transactions = @ + Added(i, r, "transactions")]

RemoveTransactionWith(i, emergency) ==
    \E id \in TransactionIds :
        /\ Returns(i, remove_transaction(i, storage[i], id, emergency, now))
        /\ UNCHANGED next_id

RemoveTransaction(i) == \E emergency \in BOOLEAN : RemoveTransactionWith(i, emergency)

CleanRemoved(i) ==
    /\ Returns(i, clean_removed(i, storage[i]))
    /\ UNCHANGED next_id

(***************************************************************************)
(* One instance and its database.                                          *)
(***************************************************************************)
Next ==
    \/ Tick
    \/ Initialize("i1")
    \/ AddAccount("i1")
    \/ RemoveAccount("i1")
    \/ AddCategory("i1")
    \/ RemoveCategory("i1")
    \/ AddPlan("i1")
    \/ RemovePlan("i1")
    \/ AddTransaction("i1")
    \/ AddTransfer("i1")
    \/ RemoveTransaction("i1")
    \/ CleanRemoved("i1")

Spec == Init /\ [][Next]_vars

(***************************************************************************)
(* Two instances that share one remote and one password.  The first has    *)
(* run initialize(); the second has, or is still to run it.  The Budgets   *)
(* are built either with DbStorage or with a DataStorage that answers the  *)
(* queries of synchronization as designed.                                 *)
(***************************************************************************)
Password == "password"

\* The network during a synchronization: up, lost before the push, or down.
Connected == [fetch |-> TRUE, push |-> TRUE]
Networks == {Connected, [fetch |-> TRUE, push |-> FALSE], [fetch |-> FALSE, push |-> FALSE]}

\* The cumulative changelog in the files, in the clear.
ChangelogOf(files) ==
    IF Len(files.changelog) = 0 THEN Changelog_new ELSE files.changelog[1].pt

Synchronizes(i, r) ==
    /\ calls < MaxCalls
    /\ calls' = calls + 1
    /\ storage' = [storage EXCEPT ![i] = r.st]
    /\ repo' = [repo EXCEPT ![i] = r.repo]
    /\ remote' = r.remote
    /\ progress' =
            IF r.remote.version = remote.version THEN progress
            ELSE [progress EXCEPT
                  !.dirty[i] = FALSE,
                  !.synced[i] = r.remote.version,
                  !.last_change =
                    IF r.remote.files.changelog[1].pt # ChangelogOf(remote.files)
                    THEN r.remote.version
                    ELSE @]
    /\ UNCHANGED <<next_id, now, foreign_keys, backend, crypto>>

PerformSync(i) ==
    \E net \in Networks :
        Synchronizes(i, perform_sync(i, storage[i], repo[i], remote, Password, net))

InitSync ==
    /\ storage \in [Instances -> {EmptyStore} \cup
                        {initialize(i, EmptyStore).st : i \in Instances}]
    /\ \A i \in Instances : \A c \in storage[i].categories : c.meta_info.origin = i
    /\ storage["i1"] # EmptyStore
    /\ next_id =[accounts |-> 0, categories |-> 0, plans |-> 0, transactions |-> 0]
    /\ now = StartTime
    /\ foreign_keys \in BOOLEAN
    /\ backend \in {"DbStorage", "DataStorage"}
    /\ repo = [i \in Instances |-> GitSyncEngine_create]
    /\ remote = [version |-> 0, files |-> EmptyFiles]
    /\ progress = NoProgress
    /\ calls = 0
    /\ crypto = NoCrypto

NextSync ==
    \/ Tick
    \/ \E i \in Instances : Initialize(i)
    \/ \E i \in Instances : AddCategoryOf(i, {TRANSFER_INCOME_ID}, {"Income"})
    \/ \E i \in Instances : AddAccount(i)
    \/ \E i \in Instances : RemoveAccountWith(i, FALSE)
    \/ \E i \in Instances : AddTransactionOf(i, {TRANSFER_INCOME_ID}, {MaxAmount})
    \/ \E i \in Instances : RemoveTransactionWith(i, FALSE)
    \/ \E i \in Instances : PerformSync(i)

SpecSync == InitSync /\ [][NextSync]_vars

(***************************************************************************)
(* One initialized instance on a database whose statements may fail, and   *)
(* a caller who removes transactions with the emergency flag only.         *)
(***************************************************************************)
InitFaults ==
    /\ storage = [i \in Instances |-> initialize(i, EmptyStore).st]
    /\ next_id = [accounts |-> 0, categories |-> 0, plans |-> 0, transactions |-> 0]
    /\ now = StartTime
    /\ foreign_keys \in BOOLEAN
    /\ backend = "DbStorage"
    /\ repo = [i \in Instances |-> GitSyncEngine_create]
    /\ remote = [version |-> 0, files |-> EmptyFiles]
    /\ progress = NoProgress
    /\ calls = 0
    /\ crypto = NoCrypto

NextFaults ==
    \/ Tick
    \/ AddAccount("i1")
    \/ AddTransactionIo("i1")
    \/ RemoveTransactionWith("i1", TRUE)

SpecFaults == InitFaults /\ [][NextFaults]_vars

(***************************************************************************)
(* Two initialized instances whose callers do not always give the same     *)
(* password to perform_sync.                                               *)
(***************************************************************************)
Passwords == {Password, "another password"}

PerformSyncAs(i) ==
    \E auth \in Passwords, net \in Networks :
        Synchronizes(i, perform_sync(i, storage[i], repo[i], remote, auth, net))

InitAuth ==
    /\ storage = [i \in Instances |-> initialize(i, EmptyStore).st]
    /\ next_id = [accounts |-> 0, categories |-> 0, plans |-> 0, transactions |-> 0]
    /\ now = StartTime
    /\ foreign_keys \in BOOLEAN
    /\ backend \in {"DbStorage", "DataStorage"}
    /\ repo = [i \in Instances |-> GitSyncEngine_create]
    /\ remote = [version |-> 0, files |-> EmptyFiles]
    /\ progress = NoProgress
    /\ calls = 0
    /\ crypto = NoCrypto

NextAuth ==
    \/ Tick
    \/ \E i \in Instances : AddAccount(i)
    \/ \E i \in Instances : RemoveAccountWith(i, FALSE)
    \/ \E i \in Instances : PerformSyncAs(i)

SpecAuth == InitAuth /\ [][NextAuth]_vars

(***************************************************************************)
(* Two instances that synchronize at the same time.  perform_sync is two   *)
(* steps here: everything up to the local commit, and the push reaching    *)
(* the remote, which may by then hold another instance's commit.  The      *)
(* remote takes a push only as a fast-forward of what it holds.            *)
(***************************************************************************)
\* A push_remote that the remote takes whatever it holds.
push_remote_forced(r, origin) ==
    [repo |-> [r EXCEPT !.version = origin.version + 1, !.ahead = FALSE],
     remote |-> [version |-> origin.version + 1, files |-> r.files],
     status |-> "Ok"]

push_remote(r, origin) ==
    IF origin.version # r.version
    THEN [repo |-> r, remote |-> origin, status |-> "NotFastForward"]
    ELSE [repo |-> [r EXCEPT !.version = origin.version + 1, !.ahead = FALSE],
          remote |-> [version |-> origin.version + 1, files |-> r.files],
          status |-> "Ok"]

\* perform_sync up to commit_files: pull, merge and export, last-sync, commit.
Committed(i) ==
    GitSyncEngine_perform_sync(i, storage[i], repo[i], remote, Password,
                               [fetch |-> TRUE, push |-> FALSE])

SyncBegins(i) ==
    /\ calls < MaxCalls
    /\ ~progress.pushing[i]
    /\ calls' = calls + 1
    /\ storage' = [storage EXCEPT ![i] = Committed(i).st]
    /\ repo' = [repo EXCEPT ![i] = Committed(i).repo]
    /\ progress' = [progress EXCEPT !.pushing[i] = Committed(i).status = "PushError"]
    /\ UNCHANGED <<next_id, now, foreign_keys, backend, remote, crypto>>

\* push_remote, and the purge of Budget::perform_sync when it succeeded.
PushArrives(i) ==
    /\ calls < MaxCalls
    /\ progress.pushing[i]
    /\ calls' = calls + 1
    /\ repo' = [repo EXCEPT ![i] = push_remote(repo[i], remote).repo]
    /\ remote' = push_remote(repo[i], remote).remote
    /\ storage' = [storage EXCEPT ![i] =
            IF push_remote(repo[i], remote).status = "Ok"
            THEN clean_removed(i, storage[i]).st ELSE @]
    /\ progress' = [progress EXCEPT
            !.pushing[i] = FALSE,
            !.accepted = IF push_remote(repo[i], remote).status # "Ok" THEN @
                         ELSE Append(@, [by |-> i, base |-> repo[i].version,
                                         before |-> ChangelogOf(remote.files),
                                         after |-> ChangelogOf(repo[i].files)])]
    /\ UNCHANGED <<next_id, now, foreign_keys, backend, crypto>>

NextRace ==
    \/ Tick
    \/ \E i \in Instances : AddAccount(i)
    \/ \E i \in Instances : RemoveAccountWith(i, FALSE)
    \/ \E i \in Instances : SyncBegins(i)
    \/ \E i \in Instances : PushArrives(i)

SpecRace == InitAuth /\ [][NextRace]_vars

(***************************************************************************)
(* crypto/symmetric.rs: the cipher of the data key.  A buffer is the        *)
(* sequence of its bytes; the sizes are those of the cipher, scaled down.  *)
(***************************************************************************)
Bytes == {0, 1}
KeySize == 2
NonceSize == 2
TagSize == 1

RECURSIVE SumBytes(_)
SumBytes(buffer) ==
    IF buffer = <<>> THEN 0 ELSE Head(buffer) + SumBytes(Tail(buffer))

\* The k-th byte of the key stream, and the authentication tag.
KeyStream(key, nonce, k) == (key[1 + (k % KeySize)] + nonce[1 + (k % NonceSize)]) % 2
Tag(key, nonce, body) ==
    [k \in 1..TagSize |-> (SumBytes(key) + SumBytes(nonce) + SumBytes(body) + Len(body) + k + 1) % 2]

Result(output, status) == [output |-> output, status |-> status]

\* Aes256Gcm, Aead::encrypt and Aead::decrypt: the tag follows the body.
Aead_encrypt(key, nonce, plaintext) ==
    LET body == [k \in 1..Len(plaintext) |-> (plaintext[k] + KeyStream(key, nonce, k)) % 2]
    IN  body \o Tag(key, nonce, body)

Aead_decrypt(key, nonce, ciphertext) ==
    LET body == SubSeq(ciphertext, 1, Len(ciphertext) - TagSize)
        tag == SubSeq(ciphertext, Len(ciphertext) - TagSize + 1, Len(ciphertext))
    IN  IF Len(ciphertext) < TagSize \/ tag # Tag(key, nonce, body)
        THEN Result(<<>>, "DecryptionError")
        ELSE Result([k \in 1..Len(body) |-> (body[k] + KeyStream(key, nonce, k)) % 2], "Ok")

SymmetricCipher_new(key) ==
    IF Len(key) # KeySize THEN Result(<<>>, "InvalidSymmetricKey") ELSE Result(key, "Ok")

SymmetricCipher_encrypt(cipher, plaintext, nonce) ==
    Result(nonce \o Aead_encrypt(cipher, nonce, plaintext), "Ok")

\* split_at(NonceSize) panics when the ciphertext is shorter than the nonce.
SymmetricCipher_decrypt(cipher, ciphertext) ==
    IF Len(ciphertext) < NonceSize THEN Result(<<>>, "Panic")
    ELSE Aead_decrypt(cipher, SubSeq(ciphertext, 1, NonceSize),
                      SubSeq(ciphertext, NonceSize + 1, Len(ciphertext)))

(***************************************************************************)
(* crypto/gpg_engine.rs: the engine wraps the data key with a GPG key.     *)
(* `agent` is what GnuPG answers to a decryption: "Ok" or its error.       *)
(***************************************************************************)
encrypt_asymmetric(plaintext) == [wrapped |-> plaintext]

decrypt_asymmetric(ciphertext, agent) ==
    IF agent # "Ok" THEN Result(<<>>, agent) ELSE Result(ciphertext.wrapped, "Ok")

EncryptedKey_new(file) == [encrypted_buffer |-> file, decrypted_buffer |-> <<>>]

\* What a call on the engine leaves: the engine, the status, the bytes
\* returned, and how many asymmetric decryptions were asked of GnuPG.
Outcome(engine, status, output, asymmetric) ==
    [engine |-> engine, status |-> status, output |-> output, asymmetric |-> asymmetric]

\* An EncryptedKey::decrypt that asks GnuPG on every call.
EncryptedKey_decrypt_every_time(e, agent) ==
    LET key == e.symmetric_key[1]
        decrypted == decrypt_asymmetric(key.encrypted_buffer, agent)
    IN  IF decrypted.status # "Ok" THEN Outcome(e, decrypted.status, <<>>, 1)
        ELSE Outcome([e EXCEPT !.symmetric_key[1].decrypted_buffer = decrypted.output],
                     "Ok", <<>>, 1)

EncryptedKey_decrypt(e, agent) ==
    LET key == e.symmetric_key[1]
        decrypted == decrypt_asymmetric(key.encrypted_buffer, agent)
    IN  IF key.decrypted_buffer # <<>> THEN Outcome(e, "Ok", <<>>, 0)
        ELSE IF decrypted.status # "Ok" THEN Outcome(e, decrypted.status, <<>>, 1)
        ELSE Outcome([e EXCEPT !.symmetric_key[1].decrypted_buffer = decrypted.output],
                     "Ok", <<>>, 1)

\* A decrypt_symmetric_key that does not look whether the engine has a key.
decrypt_symmetric_key_unchecked(e, agent) ==
    IF e.symmetric_key = <<>>
    THEN EncryptedKey_decrypt(
            [e EXCEPT !.symmetric_key = <<EncryptedKey_new(encrypt_asymmetric(<<>>))>>], agent)
    ELSE EncryptedKey_decrypt(e, agent)

decrypt_symmetric_key(e, agent) ==
    IF e.symmetric_key = <<>> THEN Outcome(e, "InvalidEngineState", <<>>, 0)
    ELSE EncryptedKey_decrypt(e, agent)

\* The end of encrypt and decrypt, once the data key is at hand.
Ciphered(symmetric_key, cipher, r) ==
    IF symmetric_key.status # "Ok" THEN symmetric_key
    ELSE IF cipher.status # "Ok"
    THEN Outcome(symmetric_key.engine, cipher.status, <<>>, symmetric_key.asymmetric)
    ELSE Outcome(symmetric_key.engine, r.status, r.output, symmetric_key.asymmetric)

DecryptedBuffer(symmetric_key) ==
    IF symmetric_key.status # "Ok" THEN <<>>
    ELSE symmetric_key.engine.symmetric_key[1].decrypted_buffer

GpgCryptoEngine_encrypt(e, plaintext, nonce, agent) ==
    Ciphered(decrypt_symmetric_key(e, agent),
             SymmetricCipher_new(DecryptedBuffer(decrypt_symmetric_key(e, agent))),
             SymmetricCipher_encrypt(DecryptedBuffer(decrypt_symmetric_key(e, agent)),
                                     plaintext, nonce))

GpgCryptoEngine_decrypt(e, ciphertext, agent) ==
    Ciphered(decrypt_symmetric_key(e, agent),
             SymmetricCipher_new(DecryptedBuffer(decrypt_symmetric_key(e, agent))),
             SymmetricCipher_decrypt(DecryptedBuffer(decrypt_symmetric_key(e, agent)),
                                     ciphertext))

GpgCryptoEngine_new == [made |-> TRUE, symmetric_key |-> <<>>]
new_dummy == GpgCryptoEngine_new

open_symmetric_key(e, symm) ==
    IF symm = <<>> THEN Outcome(e, "IoError", <<>>, 0)
    ELSE Outcome([e EXCEPT !.symmetric_key = <<EncryptedKey_new(symm[1])>>], "Ok", <<>>, 0)

GpgCryptoEngine_open(symm) == open_symmetric_key(GpgCryptoEngine_new, symm)

(***************************************************************************)
(* A process that makes engines and uses them.  The symm file is written   *)
(* by create only; GnuPG may refuse any decryption.                        *)
(***************************************************************************)
Buffers(n) == UNION {[1..k -> Bytes] : k \in 0..n}
Keys == [1..KeySize -> Bytes]
Plaintexts == Buffers(1)
Ciphertexts == Buffers(NonceSize + TagSize + 1)
Agents == {"Ok", "GpgError"}

\* A call on the engine that ends as r.
Called(call, r) ==
    /\ calls < MaxCalls
    /\ calls' = calls + 1
    /\ crypto' = [crypto EXCEPT
            !.engine = r.engine,
            !.unwrapped = IF call \in {"new_dummy", "create", "open"} THEN 0
                          ELSE @ + (IF r.asymmetric = 1 /\ r.status # "GpgError"
                                    THEN 1 ELSE 0),
            !.last = [call |-> call, status |-> r.status, asymmetric |-> r.asymmetric,
                      unwrapped |-> crypto.unwrapped, output |-> r.output]]
    /\ UNCHANGED <<storage, next_id, now, foreign_keys, backend, repo, remote, progress>>

NewDummy == Called("new_dummy", Outcome(new_dummy, "Ok", <<>>, 0))

\* create: a random data key is wrapped and written, then the file is opened.
Create ==
    \E key \in Keys :
        /\ calls < MaxCalls
        /\ calls' = calls + 1
        /\ LET r == GpgCryptoEngine_open(<<encrypt_asymmetric(key)>>)
           IN  crypto' = [symm |-> <<encrypt_asymmetric(key)>>,
                          memory |-> crypto.memory,
                          engine |-> r.engine,
                          unwrapped |-> 0,
                          last |-> [call |-> "create", status |-> r.status,
                                    asymmetric |-> r.asymmetric,
                                    unwrapped |-> crypto.unwrapped, output |-> r.output]]
        /\ UNCHANGED <<storage, next_id, now, foreign_keys, backend, repo, remote, progress>>

Open ==
    /\ crypto.symm # <<>>
    /\ Called("open", GpgCryptoEngine_open(crypto.symm))

Encrypt ==
    \E plaintext \in Plaintexts, nonce \in [1..NonceSize -> Bytes], agent \in Agents :
        /\ crypto.engine.made
        /\ Called("encrypt", GpgCryptoEngine_encrypt(crypto.engine, plaintext, nonce, agent))

Decrypt ==
    \E ciphertext \in Ciphertexts, agent \in Agents :
        /\ crypto.engine.made
        /\ Called("decrypt", GpgCryptoEngine_decrypt(crypto.engine, ciphertext, agent))

\* engine() and version()
Version ==
    /\ crypto.engine.made
    /\ Called("version", Outcome(crypto.engine, "Ok", <<>>, 0))

InitCrypto ==
    /\ storage = [i \in Instances |-> EmptyStore]
    /\ next_id = [accounts |-> 0, categories |-> 0, plans |-> 0, transactions |-> 0]
    /\ now = StartTime
    /\ foreign_keys = FALSE
    /\ backend = "DbStorage"
    /\ repo = [i \in Instances |-> GitSyncEngine_create]
    /\ remote = [version |-> 0, files |-> EmptyFiles]
    /\ progress = NoProgress
    /\ calls = 0
    /\ crypto = NoCrypto

NextCrypto ==
    \/ NewDummy
    \/ Create
    \/ Open
    \/ Encrypt
    \/ Decrypt
    \/ Version

SpecCrypto == InitCrypto /\ [][NextCrypto]_vars

(***************************************************************************)
(* crypto/buffer.rs: a CryptoBuffer owns a vector of bytes.  crypto.memory *)
(* has the buffer a scope owns (none or one), the caller's string,         *)
(* the block of bytes last given back to the allocator, the last call, and *)
(* the bytes that call was given.                                          *)
(***************************************************************************)
MaxBuffer == 2

Zeroed(data) == [k \in 1..Len(data) |-> 0]

\* A destroy_data that stops one byte short.
destroy_data_but_last(data) ==
    [k \in 1..Len(data) |-> IF k = Len(data) THEN data[k] ELSE 0]

destroy_data(data) == [k \in 1..Len(data) |-> 0]

CryptoBuffer_new_with_size(size) == [k \in 1..size |-> 0]

CryptoBuffer_from(value) == value

\* destructive_from: the buffer made, and the string as it is left.
destructive_from(value) == [buffer |-> value, string |-> destroy_data(value)]

\* Drop::drop, and the vector's bytes going back to the allocator.
CryptoBuffer_drop(data) == destroy_data(data)

Memory(call, buffer, string, returned, before) ==
    /\ calls < MaxCalls
    /\ calls' = calls + 1
    /\ crypto' = [crypto EXCEPT !.memory = [buffer |-> buffer, string |-> string,
                                             returned |-> returned, call |-> call,
                                             before |-> before]]
    /\ UNCHANGED <<storage, next_id, now, foreign_keys, backend, repo, remote, progress>>

\* The caller types a password into its string.
TypeString ==
    \E value \in Buffers(MaxBuffer) :
        Memory("string", crypto.memory.buffer, value, crypto.memory.returned, value)

BufferNewWithSize ==
    \E size \in 0..MaxBuffer :
        /\ crypto.memory.buffer = <<>>
        /\ Memory("new_with_size", <<CryptoBuffer_new_with_size(size)>>, crypto.memory.string,
                  crypto.memory.returned, <<>>)

BufferFrom ==
    \E value \in Buffers(MaxBuffer) :
        /\ crypto.memory.buffer = <<>>
        /\ Memory("from", <<CryptoBuffer_from(value)>>, crypto.memory.string,
                  crypto.memory.returned, value)

BufferDestructiveFrom ==
    /\ crypto.memory.buffer = <<>>
    /\ Memory("destructive_from", <<destructive_from(crypto.memory.string).buffer>>,
              destructive_from(crypto.memory.string).string,
              crypto.memory.returned, crypto.memory.string)

\* as_mut_bytes: the owner writes one byte.
BufferWrite ==
    \E byte \in Bytes :
        /\ crypto.memory.buffer # <<>>
        /\ \E k \in 1..Len(crypto.memory.buffer[1]) :
                Memory("as_mut_bytes", <<[crypto.memory.buffer[1] EXCEPT ![k] = byte]>>,
                       crypto.memory.string, crypto.memory.returned, crypto.memory.buffer[1])

\* The owning scope ends: at its end, at a `?`, or unwinding from a panic.
BufferDrop ==
    \E path \in {"drop at end of scope", "drop at early return", "drop at unwinding"} :
        /\ crypto.memory.buffer # <<>>
        /\ Memory(path, <<>>, crypto.memory.string,
                  <<CryptoBuffer_drop(crypto.memory.buffer[1])>>, crypto.memory.buffer[1])

NextBuffer ==
    \/ TypeString
    \/ BufferNewWithSize
    \/ BufferFrom
    \/ BufferDestructiveFrom
    \/ BufferWrite
    \/ BufferDrop

SpecBuffer == InitCrypto /\ [][NextBuffer]_vars

(***************************************************************************)
(* What the properties below speak of.                                     *)
(***************************************************************************)
RECURSIVE SumAmounts(_, _)
SumAmounts(i, rows) ==
    IF rows = {} THEN 0
    ELSE LET r == CHOOSE x \in rows : TRUE
         IN  decrypt_transaction(i, r).amount + SumAmounts(i, rows \ {r})

\* The balance of account `acc`, if it is not removed, is its initial balance
\* plus the amounts of the transactions on it that are not removed.
BalanceEquation(i, s, acc) ==
    \A r \in St_account(s, acc) :
        decrypt_account(i, r).balance =
            decrypt_account(i, r).initial_balance
                + SumAmounts(i, St_transactions_of(s, acc))

(***************************************************************************)
(* C1.  Balance equation: an account starts with its balance equal to its  *)
(* initial balance, and in every reachable state every add_transaction and *)
(* every non-emergency remove_transaction keeps, for each account that is  *)
(* not removed, balance = initial_balance + the sum of the amounts of the   *)
(* non-removed transactions on that account.                               *)
(***************************************************************************)
C1_BalanceEquation ==
    LET s == storage["i1"]
    IN  \A acc \in AccountIds :
          /\ acc \notin Ids(s.accounts) =>
                \A b \in InitialBalances :
                    BalanceEquation("i1",
                        add_account("i1", s,
                            [id |-> NoId, name |-> "A", balance |-> b,
                             initial_balance |-> b,
                             meta_info |-> MetaInfo_new("i1", now, Null, Null)],
                            acc).st, acc)
          /\ BalanceEquation("i1", s, acc) =>
                /\ \A on \in AccountIds, cat \in CategoryIds, amount \in Amounts :
                        BalanceEquation("i1",
                            add_transaction("i1", s,
                                [id |-> NoId, timestamp |-> now, description |-> "D",
                                 account_id |-> on, category_id |-> cat,
                                 amount |-> amount,
                                 meta_info |-> MetaInfo_new("i1", now, Null, Null)],
                                next_id.transactions + 1).st, acc)
                /\ \A id \in TransactionIds :
                        BalanceEquation("i1",
                            remove_transaction("i1", s, id, FALSE, now).st, acc)

\* An account that is not removed, with a transaction on it that is there and
\* one that was removed again, and the balance the equation gives.
C1_Witness ==
    \E a \in St_accounts(storage["i1"]) :
        /\ St_transactions_of(storage["i1"], a.id) # {}
        /\ \E t \in storage["i1"].transactions : t.account_id = a.id /\ ~IsLive(t)
        /\ decrypt_account("i1", a).balance # decrypt_account("i1", a).initial_balance
        /\ BalanceEquation("i1", storage["i1"], a.id)


(***************************************************************************)
(* C6.  Tombstone invisibility: in every reachable state, whatever the     *)
(* arguments, no default query (get by id, list, transactions by account,  *)
(* by category, by time window and their combinations, plans by category,  *)
(* categories by kind) returns a row whose removal timestamp is set.       *)
(***************************************************************************)
DefaultQueries(s) ==
    UNION {
        St_transactions(s), St_accounts(s), St_categories(s), St_plans(s),
        UNION {St_transaction(s, id) : id \in TransactionIds},
        UNION {St_account(s, id) : id \in AccountIds},
        UNION {St_category(s, id) : id \in CategoryIds},
        UNION {St_plan(s, id) : id \in PlanIds},
        UNION {St_transactions_after(s, t1) : t1 \in Times},
        UNION {St_transactions_between(s, t1, t2) : t1 \in Times, t2 \in Times},
        UNION {St_transactions_of(s, a) : a \in AccountIds},
        UNION {St_transactions_of_after(s, a, t1) : a \in AccountIds, t1 \in Times},
        UNION {St_transactions_of_between(s, a, t1, t2) :
                    a \in AccountIds, t1 \in Times, t2 \in Times},
        UNION {St_transactions_with(s, c) : c \in CategoryIds},
        UNION {St_transactions_with_after(s, c, t1) : c \in CategoryIds, t1 \in Times},
        UNION {St_transactions_with_between(s, c, t1, t2) :
                    c \in CategoryIds, t1 \in Times, t2 \in Times},
        UNION {St_categories_of(s, k) : k \in CategoryTypes},
        UNION {St_plans_for(s, c) : c \in CategoryIds}
    }

C6_TombstoneInvisibility ==
    \A r \in DefaultQueries(storage["i1"]) : r.meta_info.removed_timestamp = Null

\* A removed transaction next to one that is not removed, on the same account.
C6_Witness ==
    \E t \in storage["i1"].transactions, u \in storage["i1"].transactions :
        /\ t.meta_info.removed_timestamp # Null
        /\ u.meta_info.removed_timestamp = Null
        /\ t.account_id = u.account_id
        /\ u \in St_transactions_of(storage["i1"], t.account_id)

(***************************************************************************)
(* C7.  remove_account(a, force = false, ts) fails with                    *)
(* ConsistencyViolation if and only if some non-removed transaction has    *)
(* account_id = a; when it fails the store is unchanged, and when it       *)
(* succeeds account a has removal timestamp ts.                            *)
(***************************************************************************)
C7_RemoveAccount ==
    LET s == storage["i1"]
    IN  \A a \in AccountIds, ts \in {now, now + 1} :
            LET r == remove_account("i1", s, a, FALSE, ts)
                referenced == \E t \in s.transactions :
                                  t.account_id = a /\ t.meta_info.removed_timestamp = Null
            IN  /\ r.status \in {"Ok", "ConsistencyViolation"}
                /\ (r.status = "ConsistencyViolation") <=> referenced
                /\ r.status = "ConsistencyViolation" => r.st = s
                /\ r.status = "Ok" =>
                        /\ Ids(r.st.accounts) = Ids(s.accounts)
                        /\ \A x \in r.st.accounts :
                                x.id = a => x.meta_info.removed_timestamp = ts

\* One account removed without force at the present time, and another that
\* a transaction holds in place.
C7_Witness ==
    LET s == storage["i1"]
    IN  /\ \E x \in s.accounts :
                /\ x.meta_info.removed_timestamp = now
                /\ x.meta_info.added_timestamp < now
                /\ \A t \in s.transactions : t.account_id # x.id
        /\ \E y \in St_accounts(s) :
                /\ St_transactions_of(s, y.id) # {}
                /\ remove_account("i1", s, y.id, FALSE, now).status = "ConsistencyViolation"

(***************************************************************************)
(* C8.  remove_category(c, ts) for a category c that is not predefined     *)
(* fails with ConsistencyViolation if and only if some non-removed         *)
(* transaction or non-removed plan has category_id = c; removed            *)
(* transactions and plans do not hold the category in place, and a failure *)
(* leaves the store unchanged.                                             *)
(***************************************************************************)
C8_RemoveCategory ==
    LET s == storage["i1"]
    IN  \A c \in UserCategoryIds, ts \in {now, now + 1} :
            LET r == remove_category("i1", s, c, ts)
                referenced ==
                    \/ \E t \in s.transactions :
                          t.category_id = c /\ t.meta_info.removed_timestamp = Null
                    \/ \E p \in s.plans :
                          p.category_id = c /\ p.meta_info.removed_timestamp = Null
            IN  /\ r.status \in {"Ok", "ConsistencyViolation"}
                /\ (r.status = "ConsistencyViolation") <=> referenced
                /\ r.status = "ConsistencyViolation" => r.st = s
                /\ r.status = "Ok" =>
                        \A x \in r.st.categories :
                            x.id = c => x.meta_info.removed_timestamp = ts

\* A category removed although a removed plan or transaction still names it.
C8_Witness ==
    LET s == storage["i1"]
    IN  \E x \in s.categories :
            /\ x.id \in UserCategoryIds
            /\ x.meta_info.removed_timestamp # Null
            /\ \E p \in s.plans \cup s.transactions :
                    /\ p.category_id = x.id
                    /\ p.meta_info.removed_timestamp # Null

(***************************************************************************)
(* C9.  Once initialize() has put the two predefined transfer categories   *)
(* in place, every later state has both of them with no removal timestamp, *)
(* and remove_category on either id fails with CannotDeletePredefined and  *)
(* leaves the store unchanged.                                             *)
(***************************************************************************)
PredefinedInPlace(s) ==
    \A id \in {TRANSFER_INCOME_ID, TRANSFER_OUTCOME_ID} : St_category(s, id) # {}

C9_PredefinedCategories ==
    /\ [][PredefinedInPlace(storage["i1"]) => PredefinedInPlace(storage'["i1"])]_vars
    /\ [](\A id \in {TRANSFER_INCOME_ID, TRANSFER_OUTCOME_ID}, ts \in {now, now + 1} :
            LET r == remove_category("i1", storage["i1"], id, ts)
            IN  /\ r.status = "CannotDeletePredefined"
                /\ r.st = storage["i1"])

\* Both predefined categories in place after a category of the user's was
\* removed and the removed rows were purged.
C9_Witness ==
    /\ PredefinedInPlace(storage["i1"])
    /\ next_id.categories > 0
    /\ \A x \in storage["i1"].categories : x.id \notin UserCategoryIds

(***************************************************************************)
(* C10.  An add_category with one of the two reserved ids succeeds only    *)
(* inside initialize(): made by the caller, before or after initialize(),  *)
(* it fails and leaves the store unchanged, and so does a second           *)
(* initialize().                                                           *)
(***************************************************************************)
C10_ReservedIdsOnlyInInitialize ==
    LET s == storage["i1"]
    IN  /\ \A id \in {TRANSFER_INCOME_ID, TRANSFER_OUTCOME_ID}, k \in CategoryTypes :
            LET r == add_category("i1", s,
                        [id |-> id, name |-> "C", category_type |-> k,
                         meta_info |-> MetaInfo_new("i1", now, Null, Null)],
                        next_id.categories + 1)
            IN  r.status # "Ok" /\ r.st = s
        /\ PredefinedInPlace(s) =>
            LET r == initialize("i1", s) IN r.status # "Ok" /\ r.st = s

(***************************************************************************)
(* C2.  Convergence: when no instance has a local change that it has not   *)
(* synchronized, and every instance has synchronized successfully at or    *)
(* after the commit that carried the last change, all the instances hold   *)
(* the same live rows (ids, origins, plaintext fields) and the same        *)
(* balances.  The predefined categories, which every instance creates for  *)
(* itself, are left out of the comparison.                                 *)
(***************************************************************************)
LiveRows(i, s) ==
    [accounts |->
        {[decrypt_account(i, a) EXCEPT !.meta_info = @.origin] : a \in St_accounts(s)},
     categories |->
        {[decrypt_category(i, c) EXCEPT !.meta_info = @.origin] :
            c \in {x \in St_categories(s) : ~is_predefined_category(x.id)}},
     plans |->
        {[decrypt_plan(i, p) EXCEPT !.meta_info = @.origin] : p \in St_plans(s)},
     transactions |->
        {[decrypt_transaction(i, t) EXCEPT !.meta_info = @.origin] :
            t \in St_transactions(s)}]

EverySynced ==
    \A i \in Instances :
        /\ ~progress.dirty[i]
        /\ progress.synced[i] > 0
        /\ progress.synced[i] >= progress.last_change

C2_Convergence ==
    EverySynced =>
        \A i, j \in Instances : LiveRows(i, storage[i]) = LiveRows(j, storage[j])

(***************************************************************************)
(* C3.  Merge idempotence: after a successful synchronization of an        *)
(* instance, merging the remote changelog it has just merged once more,    *)
(* with the last-sync value that synchronization stored, succeeds and      *)
(* leaves the store as it is.                                              *)
(***************************************************************************)
MergedTwice(i, changelog, first) ==
    first.status = "Ok" =>
        LET again == merge_changes(i, first.st, changelog, read_last_sync(first.repo))
        IN  again.status = "Ok" /\ again.st = first.st

C3_MergeIdempotence ==
    \A i \in Instances :
        MergedTwice(i, ChangelogOf(pull_remote(repo[i], remote, TRUE).repo.files),
                    perform_sync(i, storage[i], repo[i], remote, Password, Connected))

(***************************************************************************)
(* C5.  Every row of the delta an instance exports in its next             *)
(* synchronization (what is added, changed and removed of the four kinds)  *)
(* has the instance as its origin.                                         *)
(***************************************************************************)
Entries(changelog) ==
    UNION {{changelog[kind][part][k] : k \in DOMAIN changelog[kind][part]} :
                kind \in DOMAIN changelog, part \in {"added", "changed", "removed"}}

C5_ExportedDeltaIsLocal ==
    \A i \in Instances :
        \A row \in Entries(export_local_changes(i, storage[i],
                                                 read_last_sync(repo[i])).changelog) :
            row.meta_info.origin = i

(***************************************************************************)
(* C4.  Origin filter: the merge of a synchronization on instance i        *)
(* applies no entry of the remote changelog whose origin is i.  The merge  *)
(* of the changelog the instance pulls leaves the same result as the merge *)
(* of that changelog without the entries of origin i.                      *)
(***************************************************************************)
Foreign(i, changelog) ==
    [kind \in DOMAIN changelog |->
        [part \in {"added", "changed", "removed"} |->
            SelectSeq(changelog[kind][part], LAMBDA e : e.meta_info.origin # i)]]

PulledChangelog(i) == ChangelogOf(pull_remote(repo[i], remote, TRUE).repo.files)

C4_OriginFilter ==
    \A i \in Instances :
        merge_changes(i, storage[i], PulledChangelog(i), read_last_sync(repo[i]))
            = merge_changes(i, storage[i], Foreign(i, PulledChangelog(i)),
                            read_last_sync(repo[i]))

\* An instance has synchronized twice, no other has pushed, and the changelog
\* its second synchronization merged holds an entry of its own that is not
\* older than its last synchronization.
C4_Witness ==
    \E i \in Instances :
        /\ progress.synced[i] >= 2
        /\ \A j \in Instances \ {i} : progress.synced[j] = 0
        /\ \E e \in Entries(ChangelogOf(repo[i].files)) :
                /\ e.meta_info.origin = i
                /\ e.meta_info.added_timestamp >= read_last_sync(repo[i])

(***************************************************************************)
(* C11.  The predefined categories take no part in synchronization: in a   *)
(* cycle of any instance, with the last-sync value of its file or with the *)
(* zero a file that cannot be read yields, no category of the exported     *)
(* delta has a reserved id, and the merge neither inserts, changes nor     *)
(* removes a category with a reserved id.                                  *)
(***************************************************************************)
Reserved(categories) == {c \in categories : is_predefined_category(c.id)}

CategoryEntries(changelog) ==
    UNION {{changelog.categories[part][k] : k \in DOMAIN changelog.categories[part]} :
                part \in {"added", "changed", "removed"}}

LastSyncRead(i) == {read_last_sync(repo[i]), from_timestamp(0)}

C11_PredefinedNeverSynchronized ==
    \A i \in Instances : \A last_sync \in LastSyncRead(i) :
        /\ Reserved(CategoryEntries(
                export_local_changes(i, storage[i], last_sync).changelog)) = {}
        /\ Reserved(merge_changes(i, storage[i], PulledChangelog(i),
                                  last_sync).st.categories)
                = Reserved(storage[i].categories)

\* The same, for the instances that ran initialize() on an empty store.
C11_Initialized ==
    (\A i \in Instances : \A c \in Reserved(storage[i].categories) :
            c.meta_info.added_timestamp = JANUARY_1970)
        => C11_PredefinedNeverSynchronized

(***************************************************************************)
(* C12.  add_transaction, failure atomicity: when the insert fails, the    *)
(* call fails and the store is as before; when the insert succeeds and the *)
(* update of the account fails, the call fails, the transaction row is     *)
(* there and every account row is as before.                               *)
(***************************************************************************)
C12_AddTransactionAtomicity ==
    LET s == storage["i1"]
    IN  \A on \in AccountIds, cat \in CategoryIds, amount \in Amounts, io \in Faults :
            LET t == [id |-> NoId, timestamp |-> now, description |-> "D",
                      account_id |-> on, category_id |-> cat, amount |-> amount,
                      meta_info |-> MetaInfo_new("i1", now, Null, Null)]
                inserted == St_add_transaction(s, encrypt_transaction("i1", t),
                                               next_id.transactions + 1)
                r == add_transaction_io("i1", s, t, next_id.transactions + 1, io)
            IN  St_account(s, on) # {} =>
                    /\ (io.insert # "Ok" \/ inserted.status # "Ok") =>
                            r.status # "Ok" /\ r.st = s
                    /\ (io.insert = "Ok" /\ inserted.status = "Ok" /\ io.update # "Ok") =>
                            /\ r.status # "Ok"
                            /\ r.st.transactions = inserted.st.transactions
                            /\ r.st.transactions # s.transactions
                            /\ r.st.accounts = s.accounts

\* A transaction was inserted, none was removed, and the balance of its
\* account is still the initial one.
C12_Witness ==
    \E a \in St_accounts(storage["i1"]) :
        /\ St_transactions_of(storage["i1"], a.id) # {}
        /\ \A t \in storage["i1"].transactions : IsLive(t)
        /\ decrypt_account("i1", a).balance = decrypt_account("i1", a).initial_balance

(***************************************************************************)
(* C13.  remove_transaction with emergency = true sets the removal         *)
(* timestamp of the transaction and changes nothing else, no account row   *)
(* in particular; and when an add_transaction has inserted its row and     *)
(* failed to update the account, in a store where the balance equation     *)
(* held, the emergency removal of that row makes the equation hold again.  *)
(***************************************************************************)
C13_EmergencyRemoval ==
    LET s == storage["i1"]
        skipped == [insert |-> "Ok", update |-> "SqliteError"]
    IN  /\ \A id \in TransactionIds, ts \in {now, now + 1} :
                LET r == remove_transaction("i1", s, id, TRUE, ts)
                IN  /\ r.status = "Ok"
                    /\ r.st = [s EXCEPT !.transactions =
                                {IF t.id = id
                                    THEN [t EXCEPT !.meta_info.removed_timestamp = ts]
                                    ELSE t : t \in s.transactions}]
        /\ (\A acc \in AccountIds : BalanceEquation("i1", s, acc)) =>
                \A on \in AccountIds, cat \in CategoryIds, amount \in Amounts :
                    LET added == add_transaction_io("i1", s,
                                    [id |-> NoId, timestamp |-> now, description |-> "D",
                                     account_id |-> on, category_id |-> cat,
                                     amount |-> amount,
                                     meta_info |-> MetaInfo_new("i1", now, Null, Null)],
                                    next_id.transactions + 1, skipped)
                        removed == remove_transaction("i1", added.st,
                                        next_id.transactions + 1, TRUE, now)
                    IN  added.st # s =>
                            \A acc \in AccountIds :
                                BalanceEquation("i1", removed.st, acc)

\* The caller removes with the emergency flag only: a removed transaction
\* on an account whose balance is the initial one and obeys the equation.
C13_Witness ==
    \E a \in St_accounts(storage["i1"]) :
        /\ St_transactions_of(storage["i1"], a.id) = {}
        /\ \E t \in storage["i1"].transactions : t.account_id = a.id /\ ~IsLive(t)
        /\ decrypt_account("i1", a).balance = decrypt_account("i1", a).initial_balance
        /\ BalanceEquation("i1", storage["i1"], a.id)

(***************************************************************************)
(* C14.  A successful add_transfer(amount, from, to, T) with from # to     *)
(* inserts exactly two transactions, both at T: one on `to` with the       *)
(* category TRANSFER_INCOME_ID and the amount |amount|, one on `from` with *)
(* TRANSFER_OUTCOME_ID and -|amount|; the balance of `to` grows by         *)
(* |amount| and the balance of `from` falls by |amount|, whatever the sign *)
(* of the amount given.                                                    *)
(***************************************************************************)
Legs(i, s, r) == {decrypt_transaction(i, t) : t \in r.st.transactions \ s.transactions}

BalanceOf(i, s, acc) == decrypt_account(i, TheRow(St_account(s, acc))).balance

\* |n|
Magnitude(n) == CHOOSE m \in {n, 0 - n} : m >= 0

C14_AddTransfer ==
    LET s == storage["i1"]
    IN  \A from \in AccountIds : \A to \in AccountIds \ {from} :
        \A amount \in Amounts, T \in {now, now - 1} :
            LET r == add_transfer("i1", s, amount, from, to, T,
                                  next_id.transactions + 1, next_id.transactions + 2)
                legs == Legs("i1", s, r)
            IN  r.status = "Ok" =>
                    /\ Cardinality(legs) = 2
                    /\ \A t \in legs : t.timestamp = T /\ IsLive(t)
                    /\ \E t \in legs : /\ t.account_id = to
                                        /\ t.category_id = TRANSFER_INCOME_ID
                                        /\ t.amount = Magnitude(amount)
                    /\ \E t \in legs : /\ t.account_id = from
                                        /\ t.category_id = TRANSFER_OUTCOME_ID
                                        /\ t.amount = 0 - Magnitude(amount)
                    /\ BalanceOf("i1", r.st, to) = BalanceOf("i1", s, to) + Magnitude(amount)
                    /\ BalanceOf("i1", r.st, from) = BalanceOf("i1", s, from) - Magnitude(amount)

\* Two accounts that are not removed and the two legs of a transfer between
\* them: the balances differ by twice the amount.
C14_Witness ==
    \E t1, t2 \in St_transactions(storage["i1"]) :
        /\ t1.category_id = TRANSFER_INCOME_ID /\ t2.category_id = TRANSFER_OUTCOME_ID
        /\ t1.account_id # t2.account_id
        /\ t1.timestamp = t2.timestamp
        /\ decrypt_transaction("i1", t1).amount = 0 - decrypt_transaction("i1", t2).amount
        /\ St_account(storage["i1"], t1.account_id) # {}
        /\ St_account(storage["i1"], t2.account_id) # {}
        /\ BalanceOf("i1", storage["i1"], t1.account_id)
                = BalanceOf("i1", storage["i1"], t2.account_id)
                    + 2 * decrypt_transaction("i1", t1).amount

(***************************************************************************)
(* C15.  remove_account(a, force = true, T) succeeds, without a            *)
(* ConsistencyViolation in particular; it sets the removal timestamp of    *)
(* every transaction on a that was not removed to T, and that of a to T,   *)
(* and changes no other row: the transactions of the other accounts and    *)
(* those of a that were removed before stay as they are.                   *)
(***************************************************************************)
C15_ForcedRemoveAccount ==
    LET s == storage["i1"]
    IN  \A a \in AccountIds, T \in {now, now + 1} :
            LET r == remove_account("i1", s, a, TRUE, T)
            IN  /\ r.status = "Ok"
                /\ r.st = [s EXCEPT
                        !.transactions =
                            {IF t.account_id = a /\ IsLive(t)
                                THEN [t EXCEPT !.meta_info.removed_timestamp = T]
                                ELSE t : t \in s.transactions},
                        !.accounts =
                            {IF x.id = a
                                THEN [x EXCEPT !.meta_info.removed_timestamp = T]
                                ELSE x : x \in s.accounts}]

\* An account removed together with a transaction on it, the balance still
\* counting that transaction, next to a transaction of another account.
C15_Witness ==
    \E a \in storage["i1"].accounts, t \in storage["i1"].transactions :
        /\ ~IsLive(a) /\ t.account_id = a.id
        /\ t.meta_info.removed_timestamp = a.meta_info.removed_timestamp
        /\ decrypt_account("i1", a).balance # decrypt_account("i1", a).initial_balance
        /\ \E u \in St_transactions(storage["i1"]) : u.account_id # a.id

(***************************************************************************)
(* C16.  When the pull of a synchronization fails, because the remote is   *)
(* out of reach or because the fetched head cannot be fast-forwarded       *)
(* (RemoteConflict), perform_sync returns that error and writes nothing:   *)
(* the store, the three files and the last-sync file are as before, and    *)
(* so is the remote.                                                       *)
(***************************************************************************)
C16_FailedPullWritesNothing ==
    \A i \in Instances, net \in Networks :
        LET pulled == pull_remote(repo[i], remote, net.fetch)
            r == perform_sync(i, storage[i], repo[i], remote, Password, net)
        IN  pulled.status # "Ok" =>
                /\ r.status = pulled.status
                /\ r.st = storage[i]
                /\ r.repo = repo[i]
                /\ r.remote = remote

\* An instance with a change of its own and a commit that was not pushed,
\* behind a remote that has moved on: its next pull is a RemoteConflict.
C16_Witness ==
    \E i \in Instances :
        /\ repo[i].ahead
        /\ remote.version # repo[i].version
        /\ pull_remote(repo[i], remote, TRUE).status = "RemoteConflict"
        /\ storage[i].accounts # {}

(***************************************************************************)
(* C17.  A push that fails loses nothing: the instance that holds the      *)
(* commit of the failed cycle can still publish it.  Its synchronization   *)
(* over a working network succeeds, and the changelog it publishes holds   *)
(* every entry of the changelog that the failed cycle committed, also when *)
(* a peer has pushed in the meantime.                                      *)
(***************************************************************************)
Conflicting(i) ==
    /\ repo[i].ahead
    /\ pull_remote(repo[i], remote, TRUE).status = "RemoteConflict"

C17_FailedPushIsRecoverable ==
    \A i \in Instances :
        repo[i].ahead =>
            LET r == perform_sync(i, storage[i], repo[i], remote, Password, Connected)
            IN  /\ r.status = "Ok"
                /\ Entries(ChangelogOf(repo[i].files))
                        \subseteq Entries(ChangelogOf(r.remote.files))

\* Once the unpushed commit and the head of the remote have diverged they
\* stay so, whatever the instances do.
C17_ConflictIsPermanent ==
    [][\A i \in Instances : Conflicting(i) => Conflicting(i)']_vars

(***************************************************************************)
(* C18.  The last-sync file is overwritten only after the three files have *)
(* been committed and pushed: a synchronization whose push fails leaves    *)
(* last-sync with the value it had before.                                 *)
(***************************************************************************)
C18_LastSyncAfterPush ==
    \A i \in Instances, net \in Networks :
        LET r == perform_sync(i, storage[i], repo[i], remote, Password, net)
        IN  r.status = "PushError" => read_last_sync(r.repo) = read_last_sync(repo[i])

(***************************************************************************)
(* C19.  The purge at the end of a successful synchronization deletes only *)
(* rows that the cumulative changelog written by that synchronization      *)
(* holds in its removed partition, whatever removal timestamp the caller   *)
(* gave them; and it runs only after the engine has returned success.      *)
(***************************************************************************)
Kinds == {"accounts", "categories", "plans", "transactions"}

RemovedIds(changelog, kind) ==
    {changelog[kind].removed[k].id : k \in DOMAIN changelog[kind].removed}

\* The rows that the purge of a synchronization deletes are exported by it.
PurgeIsExported(i, engine, r) ==
    /\ engine.status # "Ok" => r.st = engine.st
    /\ r.status = "Ok" =>
            \A kind \in Kinds :
                Ids(engine.st[kind]) \ Ids(r.st[kind])
                    \subseteq RemovedIds(ChangelogOf(r.remote.files), kind)

C19_PurgedRowsWereExported ==
    \A i \in Instances :
        PurgeIsExported(i,
            GitSyncEngine_perform_sync(i, storage[i], repo[i], remote, Password, Connected),
            perform_sync(i, storage[i], repo[i], remote, Password, Connected))

(***************************************************************************)
(* C20.  Reading the three files: when all three are empty the cycle       *)
(* starts from an empty cumulative changelog; when some of them are empty  *)
(* and some are not, merge_and_export_changes fails as malformed, before   *)
(* it merges anything and before it writes any file.                       *)
(***************************************************************************)
FileNames == {"timestamp", "instance", "changelog"}

\* The files with those of `emptied` truncated to nothing.
Truncated(files, emptied) ==
    [timestamp |-> IF "timestamp" \in emptied THEN <<>> ELSE files.timestamp,
     instance |-> IF "instance" \in emptied THEN <<>> ELSE files.instance,
     changelog |-> IF "changelog" \in emptied THEN <<>> ELSE files.changelog]

ReadsFiles(i, files, x) ==
    LET empties == {f \in FileNames : Len(files[f]) = 0}
    IN  /\ (empties = FileNames /\ x.status = "Ok") =>
                /\ x.st = storage[i]
                /\ ChangelogOf(x.files) = x.exported
        /\ (empties # {} /\ empties # FileNames) =>
                /\ x.status = "MalformedFiles"
                /\ x.st = storage[i]
                /\ x.files = files

C20_PartlyEmptyFilesAreMalformed ==
    \A i \in Instances, emptied \in SUBSET FileNames :
        ReadsFiles(i, Truncated(repo[i].files, emptied),
            merge_and_export_changes(i, storage[i], Truncated(repo[i].files, emptied),
                                     read_last_sync(repo[i]), Password, now))

(***************************************************************************)
(* C21.  A remote changelog that the password given to perform_sync does   *)
(* not decrypt makes perform_sync fail with the decryption error, and the  *)
(* call can be repeated: no remote row has been merged into the store, the *)
(* three files are as the pull left them, last-sync is as it was, no       *)
(* tombstone has been purged and nothing has been pushed.                  *)
(***************************************************************************)
\* The key that opens the files, from the password and what the files say.
OpeningKey(auth, files) ==
    derive_key(auth, make_key_derivation_salt(read_timestamp(files.timestamp),
                                              files.instance[1]))

Undecipherable(auth, files) ==
    /\ Len(files.changelog) >= 1
    /\ files.changelog[1].key # OpeningKey(auth, files)

C21_DecryptionFailureChangesNothing ==
    \A i \in Instances, auth \in Passwords :
        LET pulled == pull_remote(repo[i], remote, TRUE)
            r == perform_sync(i, storage[i], repo[i], remote, auth, Connected)
        IN  (pulled.status = "Ok" /\ Undecipherable(auth, pulled.repo.files)) =>
                /\ r.status = "CryptoError"
                /\ r.st = storage[i]
                /\ r.repo = pulled.repo
                /\ r.repo.last_sync = repo[i].last_sync
                /\ r.remote = remote

\* An instance with an account of its own and a tombstone to purge pulls a
\* changelog that holds a peer's account and that one of the passwords does
\* not open.
C21_Witness ==
    \E i \in Instances, auth \in Passwords :
        /\ pull_remote(repo[i], remote, TRUE).status = "Ok"
        /\ Undecipherable(auth, pull_remote(repo[i], remote, TRUE).repo.files)
        /\ \E e \in Entries(ChangelogOf(remote.files)) : e.meta_info.origin # i
        /\ \E a \in storage[i].accounts : ~IsLive(a)

(***************************************************************************)
(* C22.  The envelope across cycles: after every merge_and_export_changes  *)
(* that succeeds, the key derived from the password and from what the      *)
(* timestamp and instance files now say decrypts the changelog file, and   *)
(* the plaintext is the cumulative changelog just written: what the files  *)
(* held before followed by the local changes of this cycle.                *)
(***************************************************************************)
Reopens(auth, before, x) ==
    x.status = "Ok" =>
        decrypt_symmetric(OpeningKey(auth, x.files), x.files.changelog)
            = [pt |-> Changelog_append(ChangelogOf(before), x.exported), status |-> "Ok"]

C22_EnvelopeRoundTrip ==
    \A i \in Instances, auth \in Passwords :
        LET pulled == pull_remote(repo[i], remote, TRUE)
        IN  pulled.status = "Ok" =>
                Reopens(auth, pulled.repo.files,
                    merge_and_export_changes(i, storage[i], pulled.repo.files,
                                             read_last_sync(pulled.repo), auth, now))

\* Between two whole seconds, an instance with a new account of its own
\* opens a changelog that a peer wrote, and merges and exports with success.
C22_Witness ==
    \E i \in Instances, auth \in Passwords :
        LET pulled == pull_remote(repo[i], remote, TRUE)
            x == merge_and_export_changes(i, storage[i], pulled.repo.files,
                                          read_last_sync(pulled.repo), auth, now)
        IN  /\ pulled.status = "Ok"
            /\ x.status = "Ok"
            /\ now # from_timestamp(Seconds(now))
            /\ Entries(x.exported) # {}
            /\ \E e \in Entries(ChangelogOf(pulled.repo.files)) : e.meta_info.origin # i

(***************************************************************************)
(* C23.  The merge adds accounts, categories, plans and transactions in    *)
(* that order and then removes in the reverse order, so that a changelog   *)
(* which adds an account together with a transaction on it, or removes an  *)
(* account together with every row that refers to it, is merged with       *)
(* success.                                                                *)
(***************************************************************************)
\* What a peer that holds the rows of store s exports after the forced
\* removal of account acc at removal_timestamp.
RemovalChangelog(i, s, acc, removal_timestamp) ==
    LET there == remove_account(i, s, acc, TRUE, removal_timestamp).st
    IN  [Changelog_new EXCEPT
            !.transactions.removed =
                decrypt_transactions(i,
                    DataStorage_removed_since(there.transactions, removal_timestamp - 1)).rows,
            !.accounts.removed =
                decrypt_accounts(i,
                    DataStorage_removed_since(there.accounts, removal_timestamp - 1)).rows]

\* What a peer exports after it has added an account and a transaction on it.
AdditionChangelog(peer, timestamp) ==
    [Changelog_new EXCEPT
        !.accounts.added =
            <<[id |-> MaxAccounts + 1, name |-> "A", balance |-> 2 * MaxAmount,
               initial_balance |-> MaxAmount,
               meta_info |-> MetaInfo_new(peer, timestamp, Null, Null)]>>,
        !.transactions.added =
            <<[id |-> MaxTransactions + 1, timestamp |-> timestamp, description |-> "D",
               account_id |-> MaxAccounts + 1, category_id |-> TRANSFER_INCOME_ID,
               amount |-> MaxAmount,
               meta_info |-> MetaInfo_new(peer, timestamp, Null, Null)]>>]

C23_MergeKeepsReferences ==
    \A i \in Instances : \A peer \in Instances \ {i} :
        /\ TRANSFER_INCOME_ID \in Ids(storage[i].categories) =>
                merge_changes(i, storage[i], AdditionChangelog(peer, now),
                              read_last_sync(repo[i])).status = "Ok"
        /\ \A a \in storage[i].accounts :
                (/\ IsLive(a)
                 /\ a.meta_info.origin = peer
                 /\ St_transactions_of_unfiltered(storage[i], a.id)
                        = St_transactions_of(storage[i], a.id)) =>
                    merge_changes(i, storage[i], RemovalChangelog(i, storage[i], a.id, now),
                                  read_last_sync(repo[i])).status = "Ok"

(***************************************************************************)
(* C24.  An account merged from a peer is stored with its initial balance  *)
(* whatever balance the changelog gives, and once the merge of the whole   *)
(* changelog has completed the balance equation holds for that account on  *)
(* the receiving instance.                                                 *)
(***************************************************************************)
MergedAccounts(i, changelog, last_sync) ==
    {changelog.accounts.added[k] : k \in
        {n \in DOMAIN changelog.accounts.added :
            /\ changelog.accounts.added[n].meta_info.origin # i
            /\ changelog.accounts.added[n].meta_info.added_timestamp >= last_sync}}

C24_MergedAccountBalance ==
    \A i \in Instances :
        LET merged == merge_changes(i, storage[i], PulledChangelog(i),
                                    read_last_sync(repo[i]))
        IN  merged.status = "Ok" =>
                \A a \in MergedAccounts(i, PulledChangelog(i), read_last_sync(repo[i])) :
                    /\ a.id \in Ids(merged.st.accounts)
                    /\ BalanceEquation(i, merged.st, a.id)

\* An instance is about to merge, with success, an account that its peer
\* exported with a balance other than the initial one, and a transaction on
\* that account.
C24_Witness ==
    \E i \in Instances :
        /\ merge_changes(i, storage[i], PulledChangelog(i),
                         read_last_sync(repo[i])).status = "Ok"
        /\ \E a \in MergedAccounts(i, PulledChangelog(i), read_last_sync(repo[i])) :
                /\ a.balance # a.initial_balance
                /\ \E t \in St_transactions_of(
                        merge_changes(i, storage[i], PulledChangelog(i),
                                      read_last_sync(repo[i])).st, a.id) :
                            t.meta_info.origin # i

(***************************************************************************)
(* C25.  A row that the merge inserts keeps the id, the origin and the     *)
(* creation time it has in the changelog, and a row that the merge         *)
(* tombstones gets the removal time recorded in the changelog, not the     *)
(* time of the local clock.                                                *)
(***************************************************************************)
\* The entries of a partition of the changelog that the merge applies.
Applied(i, entries, part, last_sync) ==
    {entries[k] : k \in
        {n \in DOMAIN entries :
            /\ entries[n].meta_info.origin # i
            /\ entries[n].meta_info[part] >= last_sync}}

\* The rows of a table after the merge that were not tombstones before it.
Tombstoned(before, after) ==
    {r \in after : ~IsLive(r) /\ \A b \in before : b.id = r.id => IsLive(b)}

KeepsProvenance(i, s, changelog, last_sync, merged) ==
    merged.status = "Ok" =>
        \A kind \in {"accounts", "categories", "plans", "transactions"} :
            /\ \A e \in Applied(i, changelog[kind].added, "added_timestamp", last_sync) :
                    \E r \in merged.st[kind] :
                        /\ r.id = e.id
                        /\ r.meta_info.origin = e.meta_info.origin
                        /\ r.meta_info.added_timestamp = e.meta_info.added_timestamp
            /\ \A r \in Tombstoned(s[kind], merged.st[kind]) :
                    \E e \in Applied(i, changelog[kind].removed, "removed_timestamp",
                                     last_sync) :
                        /\ r.id = e.id
                        /\ r.meta_info.removed_timestamp = e.meta_info.removed_timestamp

C25_MergeKeepsProvenance ==
    \A i \in Instances :
        KeepsProvenance(i, storage[i], PulledChangelog(i), read_last_sync(repo[i]),
            merge_changes(i, storage[i], PulledChangelog(i), read_last_sync(repo[i])))

\* An instance is about to merge, with success, a row that its peer made and
\* removed at a time that is not the time of the clock now.
C25_Witness ==
    \E i \in Instances :
        /\ merge_changes(i, storage[i], PulledChangelog(i),
                         read_last_sync(repo[i])).status = "Ok"
        /\ \E e \in Applied(i, PulledChangelog(i).accounts.removed, "removed_timestamp",
                             read_last_sync(repo[i])) :
                /\ e.meta_info.removed_timestamp # now
                /\ e.meta_info.added_timestamp # now
                /\ e \in Applied(i, PulledChangelog(i).accounts.added, "added_timestamp",
                                 read_last_sync(repo[i]))
                /\ e.id \in Ids(Tombstoned(storage[i].accounts,
                        merge_changes(i, storage[i], PulledChangelog(i),
                                      read_last_sync(repo[i])).st.accounts))

(***************************************************************************)
(* C26: the data key is unwrapped lazily and at most once.  Opening an     *)
(* engine asks GnuPG for nothing and leaves the key wrapped; the first     *)
(* encrypt or decrypt of an opened engine asks GnuPG exactly once and      *)
(* keeps the key; every later one asks GnuPG for nothing; a refused        *)
(* unwrapping keeps nothing.                                               *)
(***************************************************************************)
Opened == crypto.engine.made /\ crypto.engine.symmetric_key # <<>>

Cached == crypto.engine.symmetric_key[1].decrypted_buffer

C26_KeyIsUnwrappedOnce ==
    Opened =>
        /\ crypto.unwrapped <= 1
        /\ crypto.last.call \in {"create", "open"} =>
                /\ crypto.last.asymmetric = 0
                /\ Cached = <<>>
        /\ crypto.last.call \in {"encrypt", "decrypt"} =>
                /\ crypto.last.asymmetric = IF crypto.last.unwrapped = 0 THEN 1 ELSE 0
                /\ crypto.last.status = "GpgError" => Cached = <<>> /\ crypto.unwrapped = 0
                /\ crypto.last.status # "GpgError" =>
                        /\ crypto.unwrapped = 1
                        /\ Cached = crypto.symm[1].wrapped
        /\ \A agent \in Agents, nonce \in [1..NonceSize -> Bytes] :
                GpgCryptoEngine_encrypt(crypto.engine, <<>>, nonce, agent).asymmetric
                    = IF crypto.unwrapped = 0 THEN 1 ELSE 0

C26_Witness ==
    /\ Opened
    /\ crypto.last.call \in {"encrypt", "decrypt"}
    /\ crypto.last.unwrapped = 1
    /\ crypto.last.asymmetric = 0
    /\ crypto.last.status = "Ok"
    /\ calls >= 4

(***************************************************************************)
(* C27: an engine made by new_dummy never becomes operational.  Each of    *)
(* its encrypt and decrypt calls fails with InvalidEngineState, asks       *)
(* GnuPG for nothing and leaves the engine without a key, whatever GnuPG   *)
(* would answer; engine() and version() succeed.                           *)
(***************************************************************************)
Dummy == crypto.engine.made /\ crypto.engine.symmetric_key = <<>>

Refused(r) ==
    /\ r.status = "InvalidEngineState"
    /\ r.asymmetric = 0
    /\ r.output = <<>>
    /\ r.engine = crypto.engine

C27_DummyNeverOperates ==
    Dummy =>
        /\ crypto.unwrapped = 0
        /\ crypto.last.call \in {"encrypt", "decrypt"} =>
                /\ crypto.last.status = "InvalidEngineState"
                /\ crypto.last.asymmetric = 0
        /\ crypto.last.call = "version" => crypto.last.status = "Ok"
        /\ \A agent \in Agents :
                /\ \A plaintext \in Plaintexts, nonce \in [1..NonceSize -> Bytes] :
                        Refused(GpgCryptoEngine_encrypt(crypto.engine, plaintext, nonce, agent))
                /\ \A ciphertext \in Ciphertexts :
                        Refused(GpgCryptoEngine_decrypt(crypto.engine, ciphertext, agent))

C27_Witness ==
    /\ Dummy
    /\ crypto.symm # <<>>
    /\ crypto.last.call = "decrypt"
    /\ crypto.last.status = "InvalidEngineState"
    /\ calls >= 4

(***************************************************************************)
(* C28: symmetric decryption answers every invalid input with              *)
(* DecryptionError and never aborts its caller: a ciphertext that no       *)
(* encryption under the key produces, one shorter than the nonce and the   *)
(* empty one included, gives DecryptionError, both from the cipher and     *)
(* from the engine that holds the key.                                     *)
(***************************************************************************)
Encryptions(key) ==
    {SymmetricCipher_encrypt(key, plaintext, nonce).output :
        plaintext \in Buffers(NonceSize + 1), nonce \in [1..NonceSize -> Bytes]}

C28_InvalidInputIsDecryptionError ==
    Opened =>
        \A ciphertext \in Ciphertexts \ Encryptions(crypto.symm[1].wrapped) :
            /\ SymmetricCipher_decrypt(crypto.symm[1].wrapped, ciphertext).status
                    = "DecryptionError"
            /\ GpgCryptoEngine_decrypt(crypto.engine, ciphertext, "Ok").status
                    = "DecryptionError"

(***************************************************************************)
(* C29: a released CryptoBuffer gives back zeroed memory.  Whichever way   *)
(* the owning scope ends, the block returned has the length the buffer had *)
(* and every byte of it is zero; destructive_from makes a buffer with the  *)
(* string's bytes and leaves every byte of the string zero.                *)
(***************************************************************************)
Dropped == crypto.memory.call \in {"drop at end of scope", "drop at early return",
                                   "drop at unwinding"}

C29_ReleasedBufferIsZero ==
    /\ Dropped =>
            /\ crypto.memory.buffer = <<>>
            /\ Len(crypto.memory.returned[1]) = Len(crypto.memory.before)
            /\ \A k \in 1..Len(crypto.memory.returned[1]) : crypto.memory.returned[1][k] = 0
    /\ crypto.memory.call = "destructive_from" =>
            /\ crypto.memory.buffer = <<crypto.memory.before>>
            /\ Len(crypto.memory.string) = Len(crypto.memory.before)
            /\ \A k \in 1..Len(crypto.memory.string) : crypto.memory.string[k] = 0

C29_Witness ==
    /\ crypto.memory.call = "drop at unwinding"
    /\ Len(crypto.memory.before) = MaxBuffer
    /\ \A k \in 1..MaxBuffer : crypto.memory.before[k] = 1
    /\ crypto.memory.string = Zeroed(crypto.memory.before)
    /\ calls = 3

(***************************************************************************)
(* C30: the provenance queries of the store succeed and return exactly the *)
(* matching rows.  For accounts, categories, plans and transactions alike, *)
(* added_since(t) returns every row created after t, tombstoned or not,    *)
(* changed_since(t) every row changed after t and removed_since(t) every   *)
(* row removed after t.                                                    *)
(***************************************************************************)
Returned(result, rows) ==
    /\ result.status = "Ok"
    /\ {result.rows[k] : k \in 1..Len(result.rows)} = rows
    /\ Len(result.rows) = Cardinality(rows)

TransactionsSince(s, t) ==
    /\ Returned(St_transactions_added_since(s, t), AddedSince(s.transactions, t))
    /\ Returned(St_transactions_changed_since(s, t), ChangedSince(s.transactions, t))
    /\ Returned(St_transactions_removed_since(s, t), RemovedSince(s.transactions, t))

C30_ProvenanceQueriesReturnMatchingRows ==
    \A i \in Instances, t \in 0..now :
        /\ TransactionsSince(storage[i], t)
        /\ Returned(St_accounts_added_since(storage[i], t), AddedSince(storage[i].accounts, t))
        /\ Returned(St_accounts_changed_since(storage[i], t), ChangedSince(storage[i].accounts, t))
        /\ Returned(St_accounts_removed_since(storage[i], t), RemovedSince(storage[i].accounts, t))
        /\ Returned(St_categories_added_since(storage[i], t),
                    AddedSince(storage[i].categories, t))
        /\ Returned(St_categories_changed_since(storage[i], t),
                    ChangedSince(storage[i].categories, t))
        /\ Returned(St_categories_removed_since(storage[i], t),
                    RemovedSince(storage[i].categories, t))
        /\ Returned(St_plans_added_since(storage[i], t), AddedSince(storage[i].plans, t))
        /\ Returned(St_plans_changed_since(storage[i], t), ChangedSince(storage[i].plans, t))
        /\ Returned(St_plans_removed_since(storage[i], t), RemovedSince(storage[i].plans, t))

(***************************************************************************)
(* C31: with a remote that takes fast-forward pushes only, of the pushes   *)
(* of instances that pulled the same commit at most one is accepted, and   *)
(* every accepted cumulative changelog begins, in each partition of each   *)
(* kind, with the entries of the changelog it replaces, in their order.    *)
(***************************************************************************)
IsPrefix(s, t) == Len(s) <= Len(t) /\ SubSeq(t, 1, Len(s)) = s

Extends(after, before) ==
    \A kind \in Kinds :
        /\ IsPrefix(before[kind].added, after[kind].added)
        /\ IsPrefix(before[kind].changed, after[kind].changed)
        /\ IsPrefix(before[kind].removed, after[kind].removed)

C31_AcceptedPushKeepsPublished ==
    /\ \A m \in DOMAIN progress.accepted :
            Extends(progress.accepted[m].after, progress.accepted[m].before)
    /\ \A m \in DOMAIN progress.accepted : \A n \in DOMAIN progress.accepted :
            progress.accepted[m].base = progress.accepted[n].base => m = n

\* Both pulled the same commit; one push was accepted and the other, which
\* would have replaced the entries just published, was refused.
C31_Witness ==
    /\ Len(progress.accepted) = 1
    /\ progress.accepted[1].after.accounts.added # <<>>
    /\ \E i \in Instances \ {progress.accepted[1].by} :
            /\ repo[i].ahead
            /\ ~progress.pushing[i]
            /\ repo[i].version = progress.accepted[1].base
            /\ ~Extends(ChangelogOf(repo[i].files), ChangelogOf(remote.files))

(***************************************************************************)
(* C32: a row is written once.  No call changes a field of a row that is   *)
(* already in a store, except the balance of an account and the removal    *)
(* timestamp: origin, creation timestamp, name and initial balance of an   *)
(* account, and every field of a transaction, a category or a plan, stay   *)
(* as inserted for as long as the row is in the store.                     *)
(***************************************************************************)
Frozen(r) ==
    IF "balance" \in DOMAIN r
    THEN [r EXCEPT !.meta_info.removed_timestamp = Null, !.balance = 0]
    ELSE [r EXCEPT !.meta_info.removed_timestamp = Null]

KeepsInserted(before, after) ==
    \A kind \in Kinds : \A r \in before[kind] : \A q \in after[kind] :
        q.id = r.id => Frozen(q) = Frozen(r)

C32_RowsKeepInsertedFields ==
    [][\A i \in Instances : KeepsInserted(storage[i], storage'[i])]_vars

\* A store with a merged account whose balance a merged transaction moved.
C32_Witness ==
    \E i \in Instances : \E a \in storage[i].accounts :
        /\ a.meta_info.origin # i
        /\ a.balance # a.initial_balance
        /\ \E t \in storage[i].transactions : t.account_id = a.id

(***************************************************************************)
(* C33: no row of a reachable store has its change timestamp set, so the   *)
(* changed partitions of every exported delta are empty for the four       *)
(* kinds, and the merge applies nothing of the changed partitions of the   *)
(* changelog it is given.                                                  *)
(***************************************************************************)
\* The changelog with its changed partitions filled with its other entries.
WithChanges(changelog) ==
    [kind \in DOMAIN changelog |->
        [changelog[kind] EXCEPT !.changed = changelog[kind].removed \o changelog[kind].added]]

C33_NothingIsChanged ==
    \A i \in Instances :
        /\ \A kind \in Kinds : \A r \in storage[i][kind] :
                r.meta_info.changed_timestamp = Null
        /\ \A last_sync \in LastSyncRead(i) : \A kind \in Kinds :
                export_local_changes(i, storage[i], last_sync).changelog[kind].changed = <<>>
        /\ merge_changes(i, storage[i], WithChanges(PulledChangelog(i)),
                         read_last_sync(repo[i]))
                = merge_changes(i, storage[i], PulledChangelog(i), read_last_sync(repo[i]))

\* An account whose balance was updated is exported, and a peer merges a
\* changelog whose changed partitions are filled.
C33_Witness ==
    \E i \in Instances :
        /\ backend = "DataStorage"
        /\ \E a \in storage[i].accounts :
                /\ a.balance # a.initial_balance
                /\ \E k \in DOMAIN export_local_changes(i, storage[i],
                                    from_timestamp(0)).changelog.accounts.added :
                        export_local_changes(i, storage[i],
                            from_timestamp(0)).changelog.accounts.added[k].id = a.id
        /\ \E peer \in Instances \ {i} :
                /\ WithChanges(PulledChangelog(peer)).accounts.changed # <<>>
                /\ merge_changes(peer, storage[peer], WithChanges(PulledChangelog(peer)),
                                 read_last_sync(repo[peer])).st # storage[peer]

(***************************************************************************)
(* C34: after the files are written anew by a successful                   *)
(* merge_and_export_changes, each of them holds what was written and no    *)
(* byte of what it held before: the timestamp file the seconds of the      *)
(* local clock, the instance file the identifier of the instance, the      *)
(* changelog file the encryption of the new cumulative changelog.          *)
(***************************************************************************)
Reenveloped(i, auth, old, x) ==
    x.status = "Ok" =>
        /\ \A name \in FileNames : prepare_for_overwrite(name, old[name], x.files[name]) = 0
        /\ x.files.timestamp = <<Seconds(now)>>
        /\ x.files.instance = <<i>>
        /\ Len(x.files.changelog) = 1
        /\ x.files.changelog[1].key = OpeningKey(auth, x.files)
        /\ ChangelogOf(x.files) = Changelog_append(ChangelogOf(old), x.exported)

C34_FilesHoldWhatWasWritten ==
    \A i \in Instances :
        Reenveloped(i, Password, pull_remote(repo[i], remote, TRUE).repo.files,
            merge_and_export_changes(i, storage[i],
                pull_remote(repo[i], remote, TRUE).repo.files,
                read_last_sync(repo[i]), Password, now))

\* The files held a changelog with entries, and are written again.
C34_Witness ==
    \E i \in Instances :
        /\ Entries(PulledChangelog(i)) # {}
        /\ pull_remote(repo[i], remote, TRUE).repo.files.instance # <<i>>
        /\ merge_and_export_changes(i, storage[i],
                pull_remote(repo[i], remote, TRUE).repo.files,
                read_last_sync(repo[i]), Password, now).status = "Ok"
        /\ merge_and_export_changes(i, storage[i],
                pull_remote(repo[i], remote, TRUE).repo.files,
                read_last_sync(repo[i]), Password, now).exported = Changelog_new

(***************************************************************************)
(* C35: a failure to read the metadata of synchronization is not           *)
(* swallowed.  With a last-sync file, or a timestamp file pulled from the  *)
(* remote, that holds fewer than the 8 bytes of a timestamp, perform_sync  *)
(* fails with the error of the malformed file and does not go on with the  *)
(* timestamp of 1 January 1970 in its place.                               *)
(***************************************************************************)
ShortLastSync(r) == [r EXCEPT !.last_sync = Null]

ShortTimestamp(origin) == [origin EXCEPT !.files.timestamp = <<Null>>]

C35_ShortMetadataFails ==
    \A i \in Instances :
        /\ perform_sync(i, storage[i], ShortLastSync(repo[i]), remote, Password,
                        Connected).status
                \in {"MalformedLastSync", "RemoteConflict"}
        /\ (remote.version > repo[i].version /\ ~repo[i].ahead) =>
                perform_sync(i, storage[i], repo[i], ShortTimestamp(remote), Password,
                             Connected).status = "MalformedTimestamp"

(***************************************************************************)
(* C36: the export skips no local change.  When a synchronization of an    *)
(* instance succeeds, every row the instance created itself is in the      *)
(* added partition, and every row it holds tombstoned is in the removed    *)
(* partition, of the changelog the synchronization publishes, the rows     *)
(* time-stamped in the second of the stored last-sync value included.      *)
(* The two categories of initialize() are left aside.                      *)
(***************************************************************************)
AddedIds(changelog, kind) ==
    {changelog[kind].added[k].id : k \in DOMAIN changelog[kind].added}

Published(i, s, r) ==
    r.status = "Ok" =>
        \A kind \in Kinds : \A row \in s[kind] :
            /\ (row.meta_info.origin = i /\ ~is_predefined_category(row.id)) =>
                    row.id \in AddedIds(ChangelogOf(r.remote.files), kind)
            /\ ~IsLive(row) => row.id \in RemovedIds(ChangelogOf(r.remote.files), kind)

C36_ExportSkipsNothing ==
    \A i \in Instances :
        Published(i, storage[i],
                  perform_sync(i, storage[i], repo[i], remote, Password, Connected))

(***************************************************************************)
(* C37: the amount of a transaction is reversed at most once.  Once a      *)
(* transaction is tombstoned, a remove_transaction of it without the       *)
(* emergency flag fails and leaves every balance as it is, whether it is   *)
(* called directly or by the merge of a removal of another instance.       *)
(***************************************************************************)
\* A changelog of `peer` that removes transaction t at removal_timestamp.
RemovalOf(i, t, peer, removal_timestamp) ==
    [Changelog_new EXCEPT !.transactions.removed =
        <<[decrypt_transaction(i, t) EXCEPT
                !.meta_info = MetaInfo_new(peer, t.meta_info.added_timestamp, Null,
                                           removal_timestamp)]>>]

FailsUnchanged(r, s) == r.status # "Ok" /\ r.st = s

C37_AmountIsReversedOnce ==
    \A i \in Instances : \A t \in storage[i].transactions :
        ~IsLive(t) =>
            \A removal_timestamp \in {now, now + 1} :
                /\ FailsUnchanged(remove_transaction(i, storage[i], t.id, FALSE,
                                                     removal_timestamp), storage[i])
                /\ \A peer \in Instances \ {i} :
                        FailsUnchanged(merge_changes(i, storage[i],
                                            RemovalOf(i, t, peer, removal_timestamp),
                                            read_last_sync(repo[i])), storage[i])

\* A tombstoned transaction of a live account, its amount taken back once.
C37_Witness ==
    \E i \in Instances : \E t \in storage[i].transactions :
        /\ ~IsLive(t)
        /\ decrypt_transaction(i, t).amount # 0
        /\ \E a \in St_account(storage[i], t.account_id) :
                decrypt_account(i, a).balance = decrypt_account(i, a).initial_balance

(***************************************************************************)
(* C38: the merge of a removal that finds no live row is a no-op.  For     *)
(* each of the four kinds, merging a removal of another instance that      *)
(* passes the filter, for a row that the store does not hold or holds      *)
(* tombstoned, returns Ok and leaves the store as it is.                   *)
(***************************************************************************)
\* A changelog of `peer` that removes the row `id` of `kind`.
RemovalOfKind(kind, id, peer, removal_timestamp) ==
    [Changelog_new EXCEPT ![kind].removed =
        <<[id |-> id,
           meta_info |-> MetaInfo_new(peer, JANUARY_1970, Null, removal_timestamp)]>>]

NoLiveRow(s, kind, id) == \A r \in s[kind] : r.id = id => ~IsLive(r)

C38_RemovalOfNoLiveRowIsNoOp ==
    \A i \in Instances : \A peer \in Instances \ {i} :
        \A kind \in Kinds : \A id \in 1..(MaxAccounts + MaxTransactions) :
            NoLiveRow(storage[i], kind, id) =>
                merge_changes(i, storage[i], RemovalOfKind(kind, id, peer, now + 1),
                              read_last_sync(repo[i]))
                    = Done(storage[i], "Ok")

(***************************************************************************)
(* C39: a merge that failed partway can be retried.  The attempt applied    *)
(* the first steps of merge_changes to the changelog of the remote and     *)
(* then failed on an error that wrote nothing; last-sync stays as it was.   *)
(* The retry with the same changelog and the same last-sync ends as the    *)
(* merge without the failure would have ended: with Ok, and with every row *)
(* of the changelog applied once.                                          *)
(***************************************************************************)
\* The changelog cut after the first n steps of merge_changes.
StepsUpTo(changelog, n) ==
    [kind \in Kinds |->
        [part \in {"added", "changed", "removed"} |->
            IF \E m \in 1..n : MergeOrder[m] = <<kind, part>>
            THEN changelog[kind][part] ELSE <<>>]]

Retried(i, s, changelog, last_sync) ==
    \A n \in 1..(Len(MergeOrder) - 1) :
        (/\ merge_changes(i, s, changelog, last_sync).status = "Ok"
         /\ merge_changes(i, s, StepsUpTo(changelog, n), last_sync).st # s) =>
            merge_changes(i, merge_changes(i, s, StepsUpTo(changelog, n), last_sync).st,
                          changelog, last_sync)
                = merge_changes(i, s, changelog, last_sync)

C39_FailedMergeCanBeRetried ==
    \A i \in Instances :
        Len(remote.files.changelog) >= 1 =>
            Retried(i, storage[i], ChangelogOf(remote.files), read_last_sync(repo[i]))

(***************************************************************************)
(* C40: a tombstone keeps its time.  A remove_* call for a row that is     *)
(* already tombstoned, made directly or by the merge of a removal of       *)
(* another instance, with whatever removal time, leaves the row with the   *)
(* removed_timestamp it has.                                               *)
(***************************************************************************)
KeepsTombstones(s, r) ==
    \A kind \in Kinds : \A row \in s[kind] : ~IsLive(row) => row \in r.st[kind]

C40_TombstoneTimeIsKept ==
    \A i \in Instances : \A removal_timestamp \in {now, now + 1} :
        \A kind \in Kinds : \A row \in storage[i][kind] :
            ~IsLive(row) =>
                /\ \A flag \in BOOLEAN :
                    /\ KeepsTombstones(storage[i],
                            remove_transaction(i, storage[i], row.id, flag, removal_timestamp))
                    /\ KeepsTombstones(storage[i],
                            remove_account(i, storage[i], row.id, flag, removal_timestamp))
                /\ KeepsTombstones(storage[i],
                        remove_category(i, storage[i], row.id, removal_timestamp))
                /\ KeepsTombstones(storage[i],
                        remove_plan(i, storage[i], row.id, removal_timestamp))
                /\ \A peer \in Instances \ {i} :
                        KeepsTombstones(storage[i],
                            merge_changes(i, storage[i],
                                RemovalOfKind(kind, row.id, peer, removal_timestamp),
                                read_last_sync(repo[i])))

====
